---- MODULE Spec2Model ----
(***************************************************************************)
(* Model of the FCC tetra-spheres solver: the search engine               *)
(* (src/external/solver/solver_engine.py, class SolverEngine) and the run  *)
(* driver with cooperative run control (src/external/solver/solver.py).    *)
(*                                                                         *)
(* Representation notes                                                    *)
(*  - A Python int used as a bitmask over cell indices is represented by   *)
(*    the set of its set bits: OR is \cup, AND NOT is \, (a & b) == 0 is   *)
(*    disjointness.  Cell indices are 0-based as in the source.            *)
(*  - The heuristic score 1.0*e + 0.8*be + 0.8*l is kept as the integer    *)
(*    5*e + 4*be + 4*l (same order).                                       *)
(*  - random.Random(seed ^ 0xC0FFEE ^ depth).shuffle(bucket) is modelled   *)
(*    as the choice of any permutation of the bucket.                      *)
(*  - The Zobrist key table is the collision-free table occ_keys[i] = 2^i, *)
(*    depth_keys[c] = 2^(N+c); the hash is computed as the source does.    *)
(*  - Pure statistics (histograms, anchor_seen, transitions, tt_hits) that *)
(*    no decision reads are left out.                                      *)
(*  - The attempts counter is exact up to MaxAttempts; larger values are  *)
(*    folded onto MaxAttempts and MaxAttempts + 1 by parity, so that every *)
(*    counted call changes it, as in the source.                           *)
(*  - The labels run, seed and ts of the stream lines are left out.        *)
(*  - Intermediate values are bound once with  x \in {expr}  (the source's *)
(*    local variables) instead of being passed as nested expressions.      *)
(***************************************************************************)
EXTENDS Integers, Sequences, FiniteSets, TLC

VARIABLES
    eng,        \* the SolverEngine object of the current attempt
    last,       \* the (progressed, solved) pair returned by the last step_once
    prev,       \* engine fields as they were when the last step_once was entered
    args,       \* the parsed command line of solver.py
    drv,        \* the locals of main() and run_once_with_engine(), and the position in them
    rc,         \* the run-control file and the module globals that cache it
    stream,     \* the last lines of the progress stream progress.jsonl
    act         \* the operation that produced the current state

vars == <<eng, last, prev, args, drv, rc, stream, act>>

(***************************************************************************)
(* Bounds of the model                                                     *)
(***************************************************************************)
SmallCapMax == 2      \* the branch caps are set to 1..SmallCapMax in place of their defaults
MaxSeed == 3          \* the seeds of an attempt range over 0..MaxSeed
SmallTTMax == 2       \* TT_MAX is set to 1..SmallTTMax in place of its default
MaxAttempts == 6      \* the attempts counter is exact up to here
MaxRotate == 1         \* rotate_first ranges over 0..MaxRotate; try_openers is MaxRotate
MaxCtlWrites == 2      \* the controller changes the run-control file at most this often
StreamTail == 2        \* the number of trailing stream lines that are kept

(***************************************************************************)
(* Tunables of solver_engine.py                                            *)
(***************************************************************************)
DEFAULT_BRANCH_CAP_OPEN == 18
DEFAULT_BRANCH_CAP_TIGHT == 10
DEFAULT_TT_MAX == 1200000
DEFAULT_TT_TRIM_KEEP == 800000
DEFAULT_DEG2_CORRIDOR == FALSE
DEFAULT_ROULETTE_MODE == "least-tried"
EXPOSURE_WEIGHT5 == 5
BOUNDARY_EXPOSURE_WEIGHT5 == 4
LEAF_WEIGHT5 == 4

\* FCC adjacency (12-neighbor)
_NEIGH == << <<1,0,0>>, <<-1,0,0>>, <<0,1,0>>, <<0,-1,0>>, <<0,0,1>>, <<0,0,-1>>,
             <<1,-1,0>>, <<-1,1,0>>, <<1,0,-1>>, <<-1,0,1>>, <<0,1,-1>>, <<0,-1,1>> >>

\* Preferred piece order bias
_ORDER_PREF == << "A","C","E","G","I","J","H","F","D","B","Y",
                  "X","W","L","K","V","U","T",
                  "N","M",
                  "S","R","Q","P","O" >>

\* character order used by sorted() on one-letter piece ids
AlphaOrder == << "A","B","C","D","E","F","G","H","I","J","K","L","M",
                 "N","O","P","Q","R","S","T","U","V","W","X","Y","Z" >>

(***************************************************************************)
(* Generic helpers                                                         *)
(***************************************************************************)
Range(s) == {s[i] : i \in DOMAIN s}

PosIn(seq, x) == CHOOSE i \in DOMAIN seq : seq[i] = x

\* lexicographic order on integer sequences of equal length
RECURSIVE LexLess(_, _)
LexLess(a, b) ==
    IF Len(a) = 0 THEN FALSE
    ELSE IF a[1] # b[1] THEN a[1] < b[1]
    ELSE LexLess(Tail(a), Tail(b))

\* sorted(S) for a set S whose elements are mapped to distinct integer tuples by Key
SortBy(S, Key(_)) ==
    [n \in 1..Cardinality(S) |->
        CHOOSE c \in S : Cardinality({d \in S : LexLess(Key(d), Key(c))}) = n - 1]

CellAdd(c, d) == <<c[1] + d[1], c[2] + d[2], c[3] + d[3]>>

(***************************************************************************)
(* The inputs: containers and piece libraries                              *)
(***************************************************************************)
Line(n) == {<<x, 0, 0>> : x \in 0..(n - 1)}
Tetra == {<<0,0,0>>, <<1,1,0>>, <<1,0,1>>, <<0,1,1>>}
TetraOri == << <<0,0,0>>, <<1,1,0>>, <<1,0,1>>, <<0,1,1>> >>
TetraOri2 == << <<0,0,0>>, <<1,0,1>>, <<1,1,0>>, <<0,1,1>> >>
Row4 == << <<0,0,0>>, <<1,0,0>>, <<2,0,0>>, <<3,0,0>> >>
Split4 == << <<0,0,0>>, <<1,0,0>>, <<4,0,0>>, <<5,0,0>> >>
Rect(a, b) == {<<x, y, 0>> : x \in 0..(a - 1), y \in 0..(b - 1)}
Rhomb == << <<0,0,0>>, <<1,0,0>>, <<0,1,0>>, <<1,1,0>> >>
RhombB == << <<0,0,0>>, <<1,0,0>>, <<0,-1,0>>, <<1,-1,0>> >>
TwoBlocks == {<<x, y, 0>> : x \in {0, 1, 4, 5}, y \in {0, 1}}
Rows4 == << <<0,0,0>>, <<1,0,0>>, <<4,0,0>>, <<5,0,0>> >>
Cols4 == << <<0,0,0>>, <<0,1,0>>, <<4,0,0>>, <<4,1,0>> >>
Wide4 == << <<0,0,0>>, <<1,0,0>>, <<6,0,0>>, <<7,0,0>> >>

Worlds == <<
    \* 1: scenario S1, the trivial 4-cell container
    [cells |-> Tetra, pieces |-> [p \in {"A"} |-> <<TetraOri>>]],
    \* 2: scenario S3, three cells
    [cells |-> Line(3), pieces |-> [p \in {"A"} |-> <<Row4>>]],
    \* 3: 8 cells in a row, two pieces, the only tiling is A=0,1,4,5, C=2,3,6,7
    [cells |-> Line(8), pieces |-> [p \in {"A", "C"} |->
        IF p = "A" THEN <<Row4, Split4>> ELSE <<Split4>>]],
    \* 4: 12 cells in a row, three pieces, the only tiling is A=0..3, C=4,5,8,9, E=6,7,10,11
    [cells |-> Line(12), pieces |-> [p \in {"A", "C", "E"} |->
        IF p = "A" THEN <<Row4>> ELSE IF p = "C" THEN <<Row4, Split4>> ELSE <<Split4>>]],
    \* 5: the 4-cell container, the piece listed in two orientations covering the same cells
    [cells |-> Tetra, pieces |-> [p \in {"A"} |-> <<TetraOri, TetraOri2>>]],
    \* 6: 10 cells in a row (not a multiple of 4), two pieces
    [cells |-> Line(10), pieces |-> [p \in {"A", "Z"} |-> <<Row4>>]],
    \* 7: a 4 x 2 patch of the plane k = 0, two pieces
    [cells |-> Rect(4, 2), pieces |-> [p \in {"C", "E"} |-> <<Row4, Rhomb, RhombB>>]],
    \* 8: two separate 2 x 2 blocks, two pieces that each cover a row or a column of
    \* both: the two first placements rank equal, so the roulette decides between the
    \* tiling by rows and the tiling by columns
    [cells |-> TwoBlocks, pieces |-> [p \in {"A", "C"} |-> <<Rows4, Cols4>>]],
    \* 9: a container file whose "cells" list is empty
    [cells |-> {}, pieces |-> [p \in {"A"} |-> <<Row4>>]],
    \* 10: 12 cells in a row without a tiling: each of the three first placements of A
    \* lets C be placed and leaves no room for E, so the search meets three dead ends
    \* two pieces deep
    [cells |-> Line(12), pieces |-> [p \in {"A", "C", "E"} |->
        IF p = "A" THEN <<Row4, Split4, Wide4>> ELSE IF p = "C" THEN <<Row4>> ELSE <<Split4>>]]
>>

WorldIds == DOMAIN Worlds

(***************************************************************************)
(* Grid and fits (SolverEngine._build_grid, _precompute_fits)              *)
(***************************************************************************)
Only(S) == CHOOSE x \in S : TRUE

_build_grid(valid_set) ==
    LET N == Cardinality(valid_set)
        srt == SortBy(valid_set, LAMBDA c : c)
    IN  [idx2cell |-> [i \in 0..(N - 1) |-> srt[i + 1]],
         neighbors |-> [i \in 0..(N - 1) |->
                          [q \in DOMAIN SelectSeq(_NEIGH, LAMBDA d : CellAdd(srt[i + 1], d) \in valid_set) |->
                              PosIn(srt, CellAdd(srt[i + 1],
                                    SelectSeq(_NEIGH, LAMBDA d : CellAdd(srt[i + 1], d) \in valid_set)[q])) - 1]],
         is_boundary |-> [i \in 0..(N - 1) |->
                            \E d \in 1..12 : CellAdd(srt[i + 1], _NEIGH[d]) \notin valid_set]]

\* fits[piece][origin_idx] = list of (ori_idx, mask, cells_idx); an origin without
\* fits is absent in the source and maps to the empty list here
RECURSIVE FitList(_, _, _, _, _)
FitList(oris, valid_set, idx2cell, oidx, q) ==
    IF q > Len(oris) THEN <<>>
    ELSE (IF \A t \in DOMAIN oris[q] : CellAdd(idx2cell[oidx], oris[q][t]) \in valid_set
          THEN <<[ori_idx |-> q - 1,
                  mask |-> {i \in DOMAIN idx2cell :
                              \E t \in DOMAIN oris[q] : idx2cell[i] = CellAdd(idx2cell[oidx], oris[q][t])},
                  cells_idx |-> [t \in DOMAIN oris[q] |->
                                   CHOOSE i \in DOMAIN idx2cell :
                                       idx2cell[i] = CellAdd(idx2cell[oidx], oris[q][t])]]>>
          ELSE <<>>)
         \o FitList(oris, valid_set, idx2cell, oidx, q + 1)

_precompute_fits(pieces, valid_set, idx2cell) ==
    [key \in DOMAIN pieces |->
        [oidx \in DOMAIN idx2cell |-> FitList(pieces[key], valid_set, idx2cell, oidx, 1)]]

\* slip: the remaining ids are not reduced by the preferred ones
_pick_order_no_difference(pieces) ==
    SelectSeq(_ORDER_PREF, LAMBDA k : k \in DOMAIN pieces)
        \o SortBy(DOMAIN pieces, LAMBDA k : <<PosIn(AlphaOrder, k)>>)

\* order = preferred ids that are present, then the remaining ids sorted
_pick_order(pieces) ==
    SelectSeq(_ORDER_PREF, LAMBDA k : k \in DOMAIN pieces)
        \o SortBy(DOMAIN pieces \ Range(_ORDER_PREF), LAMBDA k : <<PosIn(AlphaOrder, k)>>)

(***************************************************************************)
(* Anchor selection (SolverEngine._neighbor_degree, _select_anchor)        *)
(***************************************************************************)
NbSet(e, idx) == Range(e.neighbors[idx])

Cells(e) == DOMAIN e.idx2cell

\* a degree that counts the occupied neighbours as well
_neighbor_degree_counts_all(e, idx, occ_bits) == Cardinality(NbSet(e, idx))

_neighbor_degree(e, idx, occ_bits) == Cardinality(NbSet(e, idx) \ occ_bits)

\* (best, best_deg), or None when every cell is occupied
None == [none |-> TRUE]

\* the loop of _select_anchor from index idx on; best.idx = -1 while nothing is found
RECURSIVE AnchorLoop(_, _, _, _)
AnchorLoop(e, occ_bits, idx, best) ==
    IF idx >= Cardinality(Cells(e)) THEN best
    ELSE IF idx \in occ_bits THEN AnchorLoop(e, occ_bits, idx + 1, best)
    ELSE Only({IF deg < best.deg \/ (deg = best.deg /\ (best.idx < 0 \/ idx < best.idx))
               THEN AnchorLoop(e, occ_bits, idx + 1, [idx |-> idx, deg |-> deg])
               ELSE AnchorLoop(e, occ_bits, idx + 1, best) :
               deg \in {_neighbor_degree(e, idx, occ_bits)}})

_select_anchor(e, occ_bits) ==
    Only({IF r.idx < 0 THEN None ELSE r :
          r \in {AnchorLoop(e, occ_bits, 0, [idx |-> -1, deg |-> 10^9])}})

(***************************************************************************)
(* Transposition table (_tt_hash, _tt_should_prune, _tt_record)            *)
(* TT is the dict in insertion order: a sequence of [h, v] entries          *)
(***************************************************************************)
RECURSIVE SumPow2(_)
SumPow2(S) == IF S = {} THEN 0 ELSE \* XOR of distinct powers of two
              Only({2^i + SumPow2(S \ {i}) : i \in {CHOOSE x \in S : TRUE}})

_tt_hash(e, occ_bits, cursor) == SumPow2(occ_bits) + 2^(Cardinality(Cells(e)) + cursor)

TTHas(tt, h) == \E i \in DOMAIN tt : tt[i].h = h
TTGet(tt, h) == tt[CHOOSE i \in DOMAIN tt : tt[i].h = h].v

_tt_should_prune(e) ==
    \E h \in {_tt_hash(e, e.occ_bits, e.cursor)} :
        TTHas(e.TT, h) /\ TTGet(e.TT, h) >= e.cursor

\* slip: the trim keeps the oldest insertions and drops the newest
TTTrim_drops_newest(e, tt) ==
    IF Len(tt) > e.TT_MAX
    THEN (IF e.TT_TRIM_KEEP >= Len(tt) THEN tt
          ELSE IF e.TT_TRIM_KEEP <= 0 THEN <<>>
          ELSE SubSeq(tt, 1, e.TT_TRIM_KEEP))
    ELSE tt

\* the trim of _tt_record: oldest insertions are dropped down to TT_TRIM_KEEP
TTTrim(e, tt) ==
    IF Len(tt) > e.TT_MAX
    THEN (IF Len(tt) - e.TT_TRIM_KEEP >= Len(tt) THEN <<>>
          ELSE IF Len(tt) - e.TT_TRIM_KEEP <= 0 THEN tt
          ELSE SubSeq(tt, Len(tt) - e.TT_TRIM_KEEP + 1, Len(tt)))
    ELSE tt

TTStore(e, h) ==
    IF ~TTHas(e.TT, h) THEN Append(e.TT, [h |-> h, v |-> e.cursor])
    ELSE IF e.cursor > TTGet(e.TT, h)
         THEN [i \in DOMAIN e.TT |->
                 IF e.TT[i].h = h THEN [h |-> h, v |-> e.cursor] ELSE e.TT[i]]
         ELSE e.TT

_tt_record(e) ==
    Only({[e EXCEPT !.TT = TTTrim(e, tt1)] :
          tt1 \in {TTStore(e, h) : h \in {_tt_hash(e, e.occ_bits, e.cursor)}}})

(***************************************************************************)
(* Pruning helpers and heuristic counts                                    *)
(***************************************************************************)
\* the connected component of the unoccupied region that contains comp
RECURSIVE Grow(_, _, _)
Grow(e, occ, comp) ==
    Only({IF nxt = comp THEN comp ELSE Grow(e, occ, nxt) :
          nxt \in {comp \cup {v \in Cells(e) \ occ : \E u \in comp : v \in NbSet(e, u)}}})

\* a slip of the size-mod-4 prune: nothing is rejected
_empties_mod4_ok_always(e, occ_after) == TRUE

_empties_mod4_ok(e, occ_after) ==
    \A i \in Cells(e) \ occ_after : Cardinality(Grow(e, occ_after, {i})) % 4 = 0

\* a slip of the isolated-empty prune: nothing is rejected
_creates_isolated_empty_never(e, occ_after, touched_idxs) == FALSE

_creates_isolated_empty(e, occ_after, touched_idxs) ==
    \E x \in (Range(touched_idxs) \cup UNION {NbSet(e, t) : t \in Range(touched_idxs)}) \ occ_after :
        NbSet(e, x) \ occ_after = {}

\* the distinct unoccupied neighbours of the newly filled cells
Exposed(e, occ_after, newly) == UNION {NbSet(e, u) : u \in Range(newly)} \ occ_after

_exposure_counts_after(e, occ_after, newly) ==
    Only({[expo |-> Cardinality(X), bexpo |-> Cardinality({v \in X : e.is_boundary[v]})] :
          X \in {Exposed(e, occ_after, newly)}})

_leaf_empties_after(e, occ_after, newly) ==
    Cardinality({v \in Exposed(e, occ_after, newly) : Cardinality(NbSet(e, v) \ occ_after) = 1})

Abs(x) == IF x < 0 THEN -x ELSE x

(***************************************************************************)
(* Candidate construction (_build_choices_bits) and ranking (_rank_and_cap)*)
(***************************************************************************)
InCorridor(e, anchor) ==
    anchor # None /\ (anchor.deg = 1 \/ (anchor.deg = 2 /\ e.deg2_corridor))

ManhattanToAnchor(e, anchor, origin_idx) ==
    Abs(e.idx2cell[anchor.idx][1] - e.idx2cell[origin_idx][1])
    + Abs(e.idx2cell[anchor.idx][2] - e.idx2cell[origin_idx][2])
    + Abs(e.idx2cell[anchor.idx][3] - e.idx2cell[origin_idx][3])

\* the nested function consider(): the scored choice, or None when pruned
consider(e, anchor, origin_idx, f) ==
    Only({IF _creates_isolated_empty(e, occ_after, f.cells_idx) THEN None
          ELSE IF e.hole_mod4 /\ ~_empties_mod4_ok(e, occ_after) THEN None
          ELSE Only({[score_expo |-> EXPOSURE_WEIGHT5 * ex.expo
                                     + BOUNDARY_EXPOSURE_WEIGHT5 * ex.bexpo
                                     + LEAF_WEIGHT5 * _leaf_empties_after(e, occ_after, f.cells_idx),
                      dist_score |-> IF anchor = None THEN 0
                                     ELSE IF anchor.idx \in Range(f.cells_idx) THEN -10
                                     ELSE IF \E ci \in Range(f.cells_idx) :
                                                ci \in NbSet(e, anchor.idx) THEN -5
                                     ELSE ManhattanToAnchor(e, anchor, origin_idx),
                      origin_idx |-> origin_idx, ori_idx |-> f.ori_idx,
                      mask |-> f.mask, cells_idx |-> f.cells_idx] :
                     ex \in {_exposure_counts_after(e, occ_after, f.cells_idx)}}) :
          occ_after \in {e.occ_bits \cup f.mask}})

\* a slip of the candidate filter: fits that overlap the occupancy are kept
ChoicesAt_any_fit(e, piece_key, anchor, origin_idx) ==
    {consider(e, anchor, origin_idx, f) : f \in Range(e.fits[piece_key][origin_idx])} \ {None}

\* the fits of the piece at one origin that are free, scored and not pruned
ChoicesAt(e, piece_key, anchor, origin_idx) ==
    {consider(e, anchor, origin_idx, f) :
        f \in {g \in Range(e.fits[piece_key][origin_idx]) : e.occ_bits \cap g.mask = {}}} \ {None}

\* the list `choices` before ranking, as a set (the ranking key is total)
Choices(e, piece_key, anchor) ==
    UNION {IF phase1 # {} THEN {phase1}
           ELSE {UNION {ChoicesAt(e, piece_key, anchor, idx) : idx \in Cells(e) \ e.occ_bits}} :
           phase1 \in {IF anchor = None THEN {} ELSE ChoicesAt(e, piece_key, anchor, anchor.idx)}}

TcKey(piece_key, c) == <<piece_key, c.origin_idx, c.ori_idx>>

BucketKey(e, piece_key, c) == <<c.score_expo, e.try_counts[TcKey(piece_key, c)]>>

\* every order of the items in which the bucket keys (score_expo, try_count) ascend
RECURSIVE RouletteOrders(_, _, _)
RouletteOrders(e, piece_key, S) ==
    IF S = {} THEN {<<>>}
    ELSE UNION {{<<c>> \o t : t \in RouletteOrders(e, piece_key, S \ {c})} :
                c \in {c \in S : \A d \in S :
                          ~LexLess(BucketKey(e, piece_key, d), BucketKey(e, piece_key, c))}}

Plain(c) == [origin_idx |-> c.origin_idx, ori_idx |-> c.ori_idx,
             mask |-> c.mask, cells_idx |-> c.cells_idx]

RankKey(e, piece_key, c) ==
    <<c.score_expo, c.dist_score, e.try_counts[TcKey(piece_key, c)], c.origin_idx, c.ori_idx>>

\* a slip of the cap: every candidate is kept
Top_keeps_all(deco, k) == deco

\* deco[:k]
Top(deco, k) == SubSeq(deco, 1, IF k > 0 /\ k < Len(deco) THEN k ELSE Len(deco))

\* the possible results of _rank_and_cap (one per outcome of the bucket shuffles)
_rank_and_cap(e, piece_key, choices, branch_cap_cur, roulette_cur) ==
    IF choices = {} THEN {<<>>}
    ELSE UNION {{[i \in DOMAIN o |-> Plain(o[i])] :
                    o \in IF roulette_cur = "least-tried"
                          THEN RouletteOrders(e, piece_key, Range(top))
                          ELSE {top}} :
                top \in {Top(deco, branch_cap_cur) :
                            deco \in {SortBy(choices, LAMBDA c : RankKey(e, piece_key, c))}}}

\* the frontier deque built for a depth with the depth's anchor and corridor flag
FrontierWith(e, piece_key, anchor, corr) ==
    {[e EXCEPT !.frontier = Append(@, ch),
               !.in_corridor = corr,
               !.branch_cap_cur = IF corr THEN e.BRANCH_CAP_TIGHT ELSE e.BRANCH_CAP_OPEN,
               !.roulette_cur = IF corr THEN "none" ELSE e.ROULETTE_MODE] :
        ch \in UNION {_rank_and_cap(e, piece_key, choices,
                                    IF corr THEN e.BRANCH_CAP_TIGHT ELSE e.BRANCH_CAP_OPEN,
                                    IF corr THEN "none" ELSE e.ROULETTE_MODE) :
                      choices \in Choices(e, piece_key, anchor)}}

\* _build_frontier_for_depth(cursor): the engines it can leave behind
_build_frontier_for_depth(e) ==
    IF e.cursor >= Len(e.order) THEN {e}
    ELSE UNION {UNION {FrontierWith(e, e.order[e.cursor + 1], anchor, corr) :
                       corr \in {InCorridor(e, anchor)}} :
                anchor \in {_select_anchor(e, e.occ_bits)}}

(***************************************************************************)
(* Apply / remove                                                          *)
(***************************************************************************)
_apply_place(e, piece_key, c) ==
    [e EXCEPT !.occ_bits = @ \cup c.mask,
              !.placements = Append(@, [piece |-> piece_key, origin_idx |-> c.origin_idx,
                                        ori_idx |-> c.ori_idx, mask |-> c.mask,
                                        cells_idx |-> c.cells_idx]),
              !.try_counts[TcKey(piece_key, c)] = @ + 1]

\* slip: the undo clears the whole occupancy
_remove_last_clears_all(e) ==
    IF e.placements = <<>> THEN e
    ELSE [e EXCEPT !.placements = SubSeq(@, 1, Len(@) - 1), !.occ_bits = {}]

\* slip: the placement is popped but its bits stay set
_remove_last_keeps_bits(e) ==
    IF e.placements = <<>> THEN e
    ELSE [e EXCEPT !.placements = SubSeq(@, 1, Len(@) - 1)]

_remove_last(e) ==
    IF e.placements = <<>> THEN e
    ELSE [e EXCEPT !.placements = SubSeq(@, 1, Len(@) - 1),
                   !.occ_bits = @ \ e.placements[Len(e.placements)].mask]

placed_count(e) == Len(e.placements)
total_pieces(e) == Len(e.order)

\* slip: the best depth follows the placed count down as well as up
UpdateBest_follows_placed(e) == [e EXCEPT !.best_depth_ever = placed_count(e)]

UpdateBest(e) ==
    IF placed_count(e) > e.best_depth_ever THEN [e EXCEPT !.best_depth_ever = placed_count(e)]
    ELSE e

\* if len(self.frontier) > self.cursor: self.frontier.pop();  self.cursor -= 1
PopAndStepBack(e) ==
    [e EXCEPT !.frontier = IF Len(@) > e.cursor THEN SubSeq(@, 1, Len(@) - 1) ELSE @,
              !.cursor = @ - 1]

Ret(e, progressed, solved) == [eng |-> e, progressed |-> progressed, solved |-> solved]

\* slip: the TT-prune branch decrements the cursor without undoing the placement
TTPruneBacktrack_no_undo(e) == PopAndStepBack(e)

\* the backtrack of the TT-prune branch
TTPruneBacktrack(e) == Only({_remove_last(e1) : e1 \in {PopAndStepBack(e)}})

\* the backtrack of the empty-frontier branch
EmptyFrontierBacktrack(e) ==
    Only({_tt_record(e2) : e2 \in {_remove_last(e1) : e1 \in {PopAndStepBack(e)}}})

\* the forward move: popleft, _apply_place, cursor += 1
PlaceFront(e) ==
    Only({[e2 EXCEPT !.cursor = @ + 1] :
          e2 \in {_apply_place(e1, e.order[e.cursor + 1], e.frontier[e.cursor + 1][1]) :
                  e1 \in {[e EXCEPT !.frontier[e.cursor + 1] = Tail(@)]}}})

\* self.solved = True; best depth update; return True, True
SolvedRet(e) == Only({Ret(UpdateBest(e1), TRUE, TRUE) : e1 \in {[e EXCEPT !.solved = TRUE]}})

(***************************************************************************)
(* One search step (SolverEngine.step_once): the set of possible returns   *)
(***************************************************************************)
RECURSIVE StepLoop(_, _)
StepLoop(e, progressed) ==
    IF e.cursor >= Len(e.order) THEN {SolvedRet(e)}
    ELSE IF e.frontier[e.cursor + 1] = <<>>
    THEN IF e.cursor = 0
         THEN {Ret(UpdateBest(e), progressed, FALSE)}
         ELSE {Ret(UpdateBest(e1), TRUE, FALSE) : e1 \in {EmptyFrontierBacktrack(e)}}
    ELSE IF Len(e.frontier[e.cursor + 1]) = 1
    THEN UNION {UNION {StepLoop(e2, TRUE) :
                       e2 \in IF Len(e1.frontier) <= e1.cursor
                              THEN _build_frontier_for_depth(e1) ELSE {e1}} :
                e1 \in {[e0 EXCEPT !.forced_singletons = @ + 1] : e0 \in {PlaceFront(e)}}}
    ELSE {Ret(UpdateBest(e1), TRUE, FALSE) : e1 \in {PlaceFront(e)}}

\* a slip of the frontier guard: every call builds a frontier for its depth
StepBody_always_builds(e) ==
    IF e.cursor >= Len(e.order) THEN {SolvedRet(e)}
    ELSE IF _tt_should_prune(e)
    THEN IF e.cursor = 0 THEN {Ret(e, FALSE, FALSE)}
         ELSE {Ret(TTPruneBacktrack(e), TRUE, FALSE)}
    ELSE UNION {StepLoop(e1, FALSE) : e1 \in _build_frontier_for_depth(e)}

\* step_once after the attempts counter is advanced and the cursor clamped
StepBody(e) ==
    IF e.cursor >= Len(e.order) THEN {SolvedRet(e)}
    ELSE IF _tt_should_prune(e)
    THEN IF e.cursor = 0 THEN {Ret(e, FALSE, FALSE)}
         ELSE {Ret(TTPruneBacktrack(e), TRUE, FALSE)}
    ELSE UNION {StepLoop(e1, FALSE) :
                e1 \in IF Len(e.frontier) <= e.cursor
                       THEN _build_frontier_for_depth(e) ELSE {e}}

step_once(e0) ==
    IF e0.dirty \/ e0.solved THEN {Ret(e0, FALSE, e0.solved)}
    ELSE UNION {StepBody(e) :
                e \in {[e0 EXCEPT !.attempts = IF @ <= MaxAttempts THEN @ + 1 ELSE MaxAttempts,
                                  !.cursor = IF @ < 0 THEN 0 ELSE @]}}

(***************************************************************************)
(* Construction (SolverEngine.__init__) and build_engine of solver.py      *)
(***************************************************************************)
TryKeys(pieces, idx2cell) ==
    UNION {{<<p, o, q - 1>> : o \in DOMAIN idx2cell, q \in DOMAIN pieces[p]} : p \in DOMAIN pieces}

NewEngineOn(w, pieces, valid_set, grid) ==
    [w |-> w,
     idx2cell |-> grid.idx2cell,
     neighbors |-> grid.neighbors,
     is_boundary |-> grid.is_boundary,
     fits |-> _precompute_fits(pieces, valid_set, grid.idx2cell),
     order |-> _pick_order(pieces),
     BRANCH_CAP_OPEN |-> DEFAULT_BRANCH_CAP_OPEN,
     BRANCH_CAP_TIGHT |-> DEFAULT_BRANCH_CAP_TIGHT,
     ROULETTE_MODE |-> DEFAULT_ROULETTE_MODE,
     TT_MAX |-> DEFAULT_TT_MAX,
     TT_TRIM_KEEP |-> DEFAULT_TT_TRIM_KEEP,
     deg2_corridor |-> DEFAULT_DEG2_CORRIDOR,
     hole_mod4 |-> FALSE,
     TT |-> <<>>,
     cursor |-> 0,
     occ_bits |-> {},
     placements |-> <<>>,
     frontier |-> <<>>,
     solved |-> FALSE,
     dirty |-> FALSE,
     attempts |-> 0,
     try_counts |-> [k \in TryKeys(pieces, grid.idx2cell) |-> 0],
     forced_singletons |-> 0,
     branch_cap_cur |-> DEFAULT_BRANCH_CAP_OPEN,
     roulette_cur |-> DEFAULT_ROULETTE_MODE,
     in_corridor |-> FALSE,
     best_depth_ever |-> 0]

\* SolverEngine(pieces, valid_set) for the inputs of world w
NewEngine(w) ==
    Only({NewEngineOn(w, Worlds[w].pieces, Worlds[w].cells, grid) :
          grid \in {_build_grid(Worlds[w].cells)}})

\* a slip of the opener rotation: the order is left as it is
Rotated_never(o, rotate_first) == o

\* o[r:] + o[:r]
Rotated(o, rotate_first) ==
    IF rotate_first # 0 /\ Len(o) > 0 /\ rotate_first % Len(o) # 0
    THEN SubSeq(o, (rotate_first % Len(o)) + 1, Len(o)) \o SubSeq(o, 1, rotate_first % Len(o))
    ELSE o

\* eng._shuffle_order does not exist in SolverEngine: the call raises AttributeError,
\* which build_engine swallows, so no shuffle mode changes the order
build_engine(w, shuffle, rotate_first, hole4) ==
    Only({[e EXCEPT !.order = Rotated(e.order, rotate_first), !.hole_mod4 = hole4] :
          e \in {NewEngine(w)}})

\* the engine fields a step is compared against
Snapshot(e) == [cursor |-> e.cursor, occ_bits |-> e.occ_bits, placements |-> e.placements,
                frontier |-> e.frontier, TT |-> e.TT]

NoCall == [progressed |-> FALSE, solved |-> FALSE, called |-> FALSE]

(***************************************************************************)
(* Run control of solver.py (_read_runctl_state) and the progress stream   *)
(* The run-control file is written by an external controller only.  Every  *)
(* change of the file gives it a new modification time.  A file that is    *)
(* empty or half-written reads as "garbage" (json.load raises).            *)
(***************************************************************************)
RunctlStates == {"run", "pause", "stop"}

\* str(s.get("state", "run")).lower() of the parsed file; "run" when parsing raises
ParsedState(content) == IF content \in RunctlStates THEN content ELSE "run"

\* slip: the new modification time is cached but the state is not re-read
_read_runctl_state_stale(r) ==
    IF r.content = "missing" THEN [rc |-> r, state |-> r._runctl_state]
    ELSE IF r.mtime # r._runctl_cache_mtime
    THEN [rc |-> [r EXCEPT !._runctl_cache_mtime = r.mtime], state |-> r._runctl_state]
    ELSE [rc |-> r, state |-> r._runctl_state]

\* the poll: the globals after the call and the returned state
_read_runctl_state(r) ==
    IF r.content = "missing" THEN [rc |-> r, state |-> r._runctl_state]
    ELSE IF r.mtime # r._runctl_cache_mtime
    THEN [rc |-> [r EXCEPT !._runctl_cache_mtime = r.mtime,
                           !._runctl_state = ParsedState(r.content)],
          state |-> ParsedState(r.content)]
    ELSE [rc |-> r, state |-> r._runctl_state]

\* the stream after one more line, cut to its last StreamTail lines
Emit(st, line) ==
    IF Len(st) < StreamTail THEN Append(st, line)
    ELSE Append(SubSeq(st, Len(st) - StreamTail + 2, Len(st)), line)

\* _emit_event_line: {"event": ..., "run", "seed", "ts"}
EventLine(event) == [event |-> event]

\* emit_progress: {"event": "progress", "placed", "best_depth", ...}
ProgressLine(e) ==
    [event |-> "progress", placed |-> placed_count(e), best_depth |-> e.best_depth_ever]

\* _write_final: the progress payload that carries a status
FinalLine(e, status_label) ==
    [event |-> "progress", status |-> status_label,
     placed |-> placed_count(e), best_depth |-> e.best_depth_ever]

LastLine(st) == st[Len(st)]

(***************************************************************************)
(* The driver: main() and run_once_with_engine() of solver.py              *)
(* An option that is not given (Python None) is None; a number of seconds  *)
(* that is given is [secs |-> n].                                          *)
(***************************************************************************)
\* slip: the option of the depth's tier alone is looked at, a lower tier is never used
effective_stall_limit_own_tier_only(a, best_depth) ==
    IF best_depth >= 24
    THEN (IF a.stall_at_24 # None THEN a.stall_at_24 ELSE a.restart_on_stall)
    ELSE IF best_depth >= 23
    THEN (IF a.stall_at_23 # None THEN a.stall_at_23 ELSE a.restart_on_stall)
    ELSE (IF a.stall_below_23 # None THEN a.stall_below_23 ELSE a.restart_on_stall)

effective_stall_limit(a, best_depth) ==
    IF a.stall_at_24 # None /\ best_depth >= 24 THEN a.stall_at_24
    ELSE IF a.stall_at_23 # None /\ best_depth >= 23 THEN a.stall_at_23
    ELSE IF a.stall_below_23 # None /\ best_depth < 23 THEN a.stall_below_23
    ELSE a.restart_on_stall

\* the sorted bag of (piece, sorted cells_idx)
solution_signature(e) ==
    {<<e.placements[i].piece, Range(e.placements[i].cells_idx)>> : i \in DOMAIN e.placements}

\* base_paths() / indexed_paths(results_found + 1) and the solution written there:
\* path 0 is <name>.world.json, path k is <name>.result<k>.world.json
world_json(a, d, e) ==
    [path |-> IF a.max_results = 1 THEN 0 ELSE d.results_found + 1,
     sig |-> solution_signature(e)]

\* the command lines that are explored
DriverWorlds == {2, 5, 6, 8, 9}

StallSettings ==
    {[restart_on_stall |-> None, stall_below_23 |-> None],
     [restart_on_stall |-> None, stall_below_23 |-> [secs |-> 1]]}

DriverArgs ==
    {[w |-> w, shuffle_pieces |-> "none",
      restart_on_stall |-> s.restart_on_stall, stall_below_23 |-> s.stall_below_23,
      stall_at_23 |-> None, stall_at_24 |-> None,
      hole4 |-> h[1], hole4_conditional |-> h[2],
      max_results |-> m, try_openers |-> t] :
        w \in DriverWorlds, s \in StallSettings,
        h \in {<<FALSE, FALSE>>, <<TRUE, FALSE>>, <<TRUE, TRUE>>},
        m \in {1, 2}, t \in {MaxRotate}}

InitRunctl ==
    [content |-> "run", mtime |-> 0, writes |-> 0,
     _runctl_cache_mtime |-> -1, _runctl_state |-> "run"]

InitDrv ==
    [pc |-> "outer", tried |-> 0, status |-> "none", results_found |-> 0,
     seen_sigs |-> {}, best_depth_ever |-> 0,
     paused |-> FALSE, deferred_hole4 |-> FALSE, want_hole4 |-> FALSE,
     progressed_any |-> FALSE, last_best |-> 0, n_stopped |-> 0,
     written |-> {}, n_solved |-> 0, summary |-> None]

\* slip: no writer of a progress line overwrites progress.json
overwrite_summary_never(st, o) == o

\* emit_progress_to_streams and _write_final append their payload to progress.jsonl and
\* then overwrite progress.json with it; _emit_event_line appends to the stream only
overwrite_summary(st, o) ==
    Only({IF x.stream # st /\ LastLine(x.stream).event = "progress"
          THEN [x EXCEPT !.drv.summary = LastLine(x.stream)]
          ELSE x : x \in {o}})

\* the top of the pause wait loop, for the state the poll returned
\* slip: the wait is left on "run" without the "resumed" line
pause_wait_no_resumed_event(d, st, state) ==
    IF state = "stop"
    THEN [drv |-> [d EXCEPT !.pc = "ret", !.status = "stopped_by_user",
                            !.n_stopped = IF @ < 2 THEN @ + 1 ELSE @],
          stream |-> Emit(st, EventLine("stopped")), act |-> "stop"]
    ELSE IF state = "run"
    THEN [drv |-> [d EXCEPT !.pc = "loop", !.paused = FALSE], stream |-> st, act |-> "resume"]
    ELSE [drv |-> d, stream |-> st, act |-> "wait"]

\* slip: the "paused" line is written again in every round of the wait
pause_wait_repeats_paused(d, st, state) ==
    IF state = "stop"
    THEN [drv |-> [d EXCEPT !.pc = "ret", !.status = "stopped_by_user",
                            !.n_stopped = IF @ < 2 THEN @ + 1 ELSE @],
          stream |-> Emit(st, EventLine("stopped")), act |-> "stop"]
    ELSE IF state = "run"
    THEN [drv |-> [d EXCEPT !.pc = "loop", !.paused = FALSE],
          stream |-> Emit(st, EventLine("resumed")), act |-> "resume"]
    ELSE [drv |-> d, stream |-> Emit(st, EventLine("paused")), act |-> "wait"]

pause_wait(d, st, state) ==
    IF state = "stop"
    THEN [drv |-> [d EXCEPT !.pc = "ret", !.status = "stopped_by_user",
                            !.n_stopped = IF @ < 2 THEN @ + 1 ELSE @],
          stream |-> Emit(st, EventLine("stopped")), act |-> "stop"]
    ELSE IF state = "run"
    THEN [drv |-> [d EXCEPT !.pc = "loop", !.paused = FALSE],
          stream |-> Emit(st, EventLine("resumed")), act |-> "resume"]
    ELSE [drv |-> d, stream |-> st, act |-> "wait"]

\* slip: the gate is released after the first step whatever the empties look like
hole4_gate_ignores_empties(d, e) ==
    IF d.deferred_hole4
    THEN [eng |-> [e EXCEPT !.hole_mod4 = d.want_hole4], deferred_hole4 |-> FALSE]
    ELSE [eng |-> e, deferred_hole4 |-> d.deferred_hole4]

\* the deferred hole4 gate after a step: the engine and the flag
hole4_gate(d, e) ==
    IF d.deferred_hole4 /\ _empties_mod4_ok(e, e.occ_bits)
    THEN [eng |-> [e EXCEPT !.hole_mod4 = d.want_hole4], deferred_hole4 |-> FALSE]
    ELSE [eng |-> e, deferred_hole4 |-> d.deferred_hole4]

\* now - last_improve_t >= stall_limit: an improvement in this iteration resets the clock
StallElapsed(stall_limit, improved, late) ==
    stall_limit # None /\ (stall_limit.secs <= 0 \/ (late /\ ~improved))

\* run_once_with_engine after step_once returned r: log, improvement, stop conditions
after_step(a, d, st, e, r, deferred, log, late) ==
    overwrite_summary(st,
    Only({Only({[drv |-> [d EXCEPT !.progressed_any = @ \/ r.progressed,
                             !.deferred_hole4 = deferred,
                             !.last_best = IF improved THEN e.best_depth_ever ELSE @,
                             !.status = IF r.solved THEN "solved"
                                        ELSE IF elapsed
                                        THEN (IF placed_count(e) = 0 THEN "exhausted_root"
                                              ELSE "stalled_or_exhausted")
                                        ELSE @,
                             !.pc = IF r.solved \/ elapsed THEN "ret" ELSE "loop"],
           stream |-> st2] :
          st2 \in {IF improved THEN Emit(st1, ProgressLine(e)) ELSE st1 :
                   st1 \in {IF log THEN Emit(st, ProgressLine(e)) ELSE st}},
          elapsed \in {StallElapsed(effective_stall_limit(a, e.best_depth_ever), improved, late)}}) :
         improved \in {e.best_depth_ever > d.last_best}}))

\* main() after run_once_with_engine returned: the outcome handling
\* slip: the break after _write_final("stopped_by_user") is missing
after_attempt_no_break(a, d, st, e) ==
    overwrite_summary(st,
    Only({IF d.status = "solved" /\ placed_count(e) = total_pieces(e)
          THEN Only({[drv |-> [d1 EXCEPT !.seen_sigs = @ \cup {solution_signature(e)},
                                         !.results_found = found,
                                         !.written = IF solution_signature(e) \in d.seen_sigs
                                                     THEN @
                                                     ELSE @ \cup {world_json(a, d, e)},
                                         !.n_solved = IF @ < 2 THEN @ + 1 ELSE @,
                                         !.pc = IF found >= a.max_results THEN "done" ELSE "outer"],
                      stream |-> Emit(st, FinalLine(e, "solved"))] :
                     found \in {IF solution_signature(e) \in d.seen_sigs
                                THEN d.results_found ELSE d.results_found + 1}})
          ELSE IF d.status = "exhausted_root" /\ d.tried + 1 <= a.try_openers
          THEN [drv |-> [d1 EXCEPT !.tried = @ + 1, !.pc = "inner"], stream |-> st]
          ELSE [drv |-> [d1 EXCEPT !.tried = IF d.status = "exhausted_root" THEN @ + 1 ELSE @,
                                   !.pc = IF d.results_found >= a.max_results
                                          THEN "done" ELSE "outer"],
                stream |-> IF d.status = "stopped_by_user"
                           THEN Emit(Emit(st, FinalLine(e, "stopped_by_user")),
                                     FinalLine(e, "stalled"))
                           ELSE Emit(st, FinalLine(e, "stalled"))] :
          d1 \in {[d EXCEPT !.best_depth_ever =
                      IF e.best_depth_ever > @ THEN e.best_depth_ever ELSE @]}}))

\* slip: a solved attempt does not leave the opener loop (no break, no final line)
after_attempt_solved_no_break(a, d, st, e) ==
    overwrite_summary(st,
    Only({IF d.status = "solved" /\ placed_count(e) = total_pieces(e)
          THEN Only({[drv |-> [d1 EXCEPT !.seen_sigs = @ \cup {solution_signature(e)},
                                         !.results_found = found,
                                         !.written = IF solution_signature(e) \in d.seen_sigs
                                                     THEN @
                                                     ELSE @ \cup {world_json(a, d, e)},
                                         !.n_solved = IF @ < 2 THEN @ + 1 ELSE @,
                                         !.pc = "inner"],
                      stream |-> st] :
                     found \in {IF solution_signature(e) \in d.seen_sigs
                                THEN d.results_found ELSE d.results_found + 1}})
          ELSE IF d.status = "exhausted_root" /\ d.tried + 1 <= a.try_openers
          THEN [drv |-> [d1 EXCEPT !.tried = @ + 1, !.pc = "inner"], stream |-> st]
          ELSE IF d.status = "stopped_by_user"
          THEN [drv |-> [d1 EXCEPT !.pc = "done"],
                stream |-> Emit(st, FinalLine(e, "stopped_by_user"))]
          ELSE [drv |-> [d1 EXCEPT !.tried = IF d.status = "exhausted_root" THEN @ + 1 ELSE @,
                                   !.pc = IF d.results_found >= a.max_results
                                          THEN "done" ELSE "outer"],
                stream |-> Emit(st, FinalLine(e, "stalled"))] :
          d1 \in {[d EXCEPT !.best_depth_ever =
                      IF e.best_depth_ever > @ THEN e.best_depth_ever ELSE @]}}))

\* slip: the signature is not looked up, every solved attempt is written and counted
after_attempt_no_dedup(a, d, st, e) ==
    overwrite_summary(st,
    Only({IF d.status = "solved" /\ placed_count(e) = total_pieces(e)
          THEN Only({[drv |-> [d1 EXCEPT !.seen_sigs = @ \cup {solution_signature(e)},
                                         !.results_found = found,
                                         !.written = @ \cup {world_json(a, d, e)},
                                         !.n_solved = IF @ < 2 THEN @ + 1 ELSE @,
                                         !.pc = IF found >= a.max_results THEN "done" ELSE "outer"],
                      stream |-> Emit(st, FinalLine(e, "solved"))] :
                     found \in {d.results_found + 1}})
          ELSE IF d.status = "exhausted_root" /\ d.tried + 1 <= a.try_openers
          THEN [drv |-> [d1 EXCEPT !.tried = @ + 1, !.pc = "inner"], stream |-> st]
          ELSE IF d.status = "stopped_by_user"
          THEN [drv |-> [d1 EXCEPT !.pc = "done"],
                stream |-> Emit(st, FinalLine(e, "stopped_by_user"))]
          ELSE [drv |-> [d1 EXCEPT !.tried = IF d.status = "exhausted_root" THEN @ + 1 ELSE @,
                                   !.pc = IF d.results_found >= a.max_results
                                          THEN "done" ELSE "outer"],
                stream |-> Emit(st, FinalLine(e, "stalled"))] :
          d1 \in {[d EXCEPT !.best_depth_ever =
                      IF e.best_depth_ever > @ THEN e.best_depth_ever ELSE @]}}))

after_attempt(a, d, st, e) ==
    overwrite_summary(st,
    Only({IF d.status = "solved" /\ placed_count(e) = total_pieces(e)
          THEN Only({[drv |-> [d1 EXCEPT !.seen_sigs = @ \cup {solution_signature(e)},
                                         !.results_found = found,
                                         !.written = IF solution_signature(e) \in d.seen_sigs
                                                     THEN @
                                                     ELSE @ \cup {world_json(a, d, e)},
                                         !.n_solved = IF @ < 2 THEN @ + 1 ELSE @,
                                         !.pc = IF found >= a.max_results THEN "done" ELSE "outer"],
                      stream |-> Emit(st, FinalLine(e, "solved"))] :
                     found \in {IF solution_signature(e) \in d.seen_sigs
                                THEN d.results_found ELSE d.results_found + 1}})
          ELSE IF d.status = "exhausted_root" /\ d.tried + 1 <= a.try_openers
          THEN [drv |-> [d1 EXCEPT !.tried = @ + 1, !.pc = "inner"], stream |-> st]
          ELSE IF d.status = "stopped_by_user"
          THEN [drv |-> [d1 EXCEPT !.pc = "done"],
                stream |-> Emit(st, FinalLine(e, "stopped_by_user"))]
          ELSE [drv |-> [d1 EXCEPT !.tried = IF d.status = "exhausted_root" THEN @ + 1 ELSE @,
                                   !.pc = IF d.results_found >= a.max_results
                                          THEN "done" ELSE "outer"],
                stream |-> Emit(st, FinalLine(e, "stalled"))] :
          d1 \in {[d EXCEPT !.best_depth_ever =
                      IF e.best_depth_ever > @ THEN e.best_depth_ever ELSE @]}}))

(***************************************************************************)
(* Engine alone: any sequence of step_once calls on a fresh engine         *)
(***************************************************************************)
InitEngine ==
    /\ \E w \in WorldIds, rot \in 0..MaxRotate, hole4 \in BOOLEAN :
          eng = build_engine(w, "none", rot, hole4)
    /\ last = NoCall
    /\ prev = Snapshot(eng)
    /\ args = None /\ drv = InitDrv /\ rc = InitRunctl /\ stream = <<>> /\ act = "init"

StepOnce ==
    /\ \E r \in step_once(eng) :
          /\ eng' = r.eng
          /\ last' = [progressed |-> r.progressed, solved |-> r.solved, called |-> TRUE]
          /\ prev' = Snapshot(eng)
    /\ UNCHANGED <<args, drv, rc, stream, act>>

NextEngine == StepOnce

SpecEngine == InitEngine /\ [][NextEngine]_vars

(***************************************************************************)
(* Driver with an external controller                                      *)
(* The driver reads the run-control file only in its polls, so a change of *)
(* the file between two attempts is the same change made before the next   *)
(* poll: the controller acts while an attempt is in its loop.              *)
(***************************************************************************)
InitDriver ==
    /\ args \in DriverArgs
    /\ eng = None /\ last = NoCall /\ prev = None
    /\ drv = InitDrv /\ rc = InitRunctl /\ stream = <<>> /\ act = "init"

\* while results_found < max_results: tried = 0; status = None
OuterLoop ==
    /\ drv.pc = "outer"
    /\ drv' = IF drv.results_found < args.max_results
              THEN [drv EXCEPT !.pc = "inner", !.tried = 0, !.status = "none"]
              ELSE [drv EXCEPT !.pc = "done"]
    /\ act' = "outer"
    /\ UNCHANGED <<eng, last, prev, args, rc, stream>>

\* build_engine and run_once_with_engine up to its loop
StartAttempt ==
    /\ drv.pc = "inner"
    /\ \E e0 \in {build_engine(args.w, args.shuffle_pieces, drv.tried, args.hole4)} :
       \E gated \in {args.hole4 /\ args.hole4_conditional} :
       \E e1 \in {IF gated THEN [e0 EXCEPT !.hole_mod4 = FALSE] ELSE e0} :
          /\ eng' = e1
          /\ drv' = [drv EXCEPT !.pc = "loop", !.paused = FALSE,
                                !.deferred_hole4 = gated, !.want_hole4 = e0.hole_mod4,
                                !.progressed_any = FALSE, !.last_best = e1.best_depth_ever,
                                !.n_stopped = 0, !.summary = ProgressLine(e1)]
          /\ stream' = Emit(stream, ProgressLine(e1))
          /\ prev' = Snapshot(e1)
    /\ last' = NoCall
    /\ act' = "start"
    /\ UNCHANGED <<args, rc>>

\* ctl == "stop" at the top of the loop
PollStop ==
    /\ drv.pc = "loop"
    /\ \E p \in {_read_runctl_state(rc)} : p.state = "stop" /\ rc' = p.rc
    /\ stream' = Emit(stream, EventLine("stopped"))
    /\ drv' = [drv EXCEPT !.pc = "ret", !.status = "stopped_by_user",
                          !.n_stopped = IF @ < 2 THEN @ + 1 ELSE @]
    /\ act' = "stop"
    /\ UNCHANGED <<eng, last, prev, args>>

\* ctl == "pause" at the top of the loop: the one-shot "paused" line, then the wait
PollPause ==
    /\ drv.pc = "loop"
    /\ \E p \in {_read_runctl_state(rc)} : p.state = "pause" /\ rc' = p.rc
    /\ stream' = IF drv.paused THEN stream ELSE Emit(stream, EventLine("paused"))
    /\ drv' = [drv EXCEPT !.pc = "pausewait", !.paused = TRUE]
    /\ act' = "pause"
    /\ UNCHANGED <<eng, last, prev, args>>

\* one round of the wait loop: sleep, poll, then stop, resume or wait on
PauseWait ==
    /\ drv.pc = "pausewait"
    /\ \E p \in {_read_runctl_state(rc)} :
          /\ rc' = p.rc
          /\ \E o \in {pause_wait(drv, stream, p.state)} :
                drv' = o.drv /\ stream' = o.stream /\ act' = o.act
    /\ UNCHANGED <<eng, last, prev, args>>

\* one iteration that steps the engine; late: the stall clock has run past the window
StepWith(late) ==
    /\ drv.pc = "loop"
    /\ \E p \in {_read_runctl_state(rc)} : p.state \notin {"stop", "pause"} /\ rc' = p.rc
    /\ \E r \in step_once(eng), log \in BOOLEAN :
       \E g \in {hole4_gate(drv, r.eng)} :
       \E o \in {after_step(args, drv, stream, g.eng, r, g.deferred_hole4, log, late)} :
          /\ eng' = g.eng
          /\ drv' = o.drv
          /\ stream' = o.stream
          /\ last' = [progressed |-> r.progressed, solved |-> r.solved, called |-> TRUE]
    /\ prev' = Snapshot(eng)
    /\ act' = "step"
    /\ UNCHANGED args

Step == \E late \in BOOLEAN : StepWith(late)

\* main() handles the outcome of the attempt
AfterAttempt ==
    /\ drv.pc = "ret"
    /\ \E o \in {after_attempt(args, drv, stream, eng)} :
          drv' = o.drv /\ stream' = o.stream
    /\ act' = "ret"
    /\ UNCHANGED <<eng, last, prev, args, rc>>

\* the controller replaces the file by one that holds another state
CtlWrite ==
    /\ drv.pc \in {"loop", "pausewait"} /\ rc.writes < MaxCtlWrites
    /\ \E s \in RunctlStates \ {rc.content} :
          rc' = [rc EXCEPT !.content = s, !.mtime = rc.writes + 1, !.writes = @ + 1]
    /\ act' = "ctl"
    /\ UNCHANGED <<eng, last, prev, args, drv, stream>>

\* the controller has opened the file for writing: it is empty or half-written
CtlTruncate ==
    /\ drv.pc \in {"loop", "pausewait"} /\ rc.writes < MaxCtlWrites
    /\ rc.content \notin {"garbage", "missing"}
    /\ rc' = [rc EXCEPT !.content = "garbage", !.mtime = rc.writes + 1, !.writes = @ + 1]
    /\ act' = "ctl"
    /\ UNCHANGED <<eng, last, prev, args, drv, stream>>

\* the controller has removed the file
CtlRemove ==
    /\ drv.pc \in {"loop", "pausewait"} /\ rc.writes < MaxCtlWrites
    /\ rc.content # "missing"
    /\ rc' = [rc EXCEPT !.content = "missing", !.writes = @ + 1]
    /\ act' = "ctl"
    /\ UNCHANGED <<eng, last, prev, args, drv, stream>>

DriverNext ==
    \/ OuterLoop
    \/ StartAttempt
    \/ PollStop
    \/ PollPause
    \/ PauseWait
    \/ Step
    \/ AfterAttempt

ControllerNext == CtlWrite \/ CtlTruncate \/ CtlRemove

NextDriver == DriverNext \/ ControllerNext

\* the controller's interleavings are explored on the containers with short attempts
ControlledWorlds == {2, 5, 8, 9}

InitControlled == InitDriver /\ args.w \in ControlledWorlds

SpecDriver == InitControlled /\ [][NextDriver]_vars

\* The driver while the controller leaves the file at "run".  The driver is a
\* sequential program that keeps running, and time passes: an iteration whose stall
\* clock has run past the window comes eventually.
DriverAloneNext ==
    \/ OuterLoop
    \/ StartAttempt
    \/ Step
    \/ AfterAttempt

SpecDriverAlone ==
    /\ InitDriver
    /\ [][DriverAloneNext]_vars
    /\ WF_vars(DriverAloneNext)
    /\ SF_vars(StepWith(TRUE))

(***************************************************************************)
(* The driver with failing file writes                                     *)
(* In one iteration of the attempt loop the first write that is due may    *)
(* fail: the snapshot, the append to the progress stream, or the overwrite *)
(* of the progress summary.  An exception that leaves run_once_with_engine *)
(* leaves main as well: the driver has crashed.                            *)
(***************************************************************************)
IoFailures == {"none", "snapshot", "stream", "summary"}

\* emit_progress_to_streams: append to the stream, then overwrite the summary; neither
\* open() is guarded
emit_progress_to_streams(st, line, fail) ==
    IF fail = "stream" THEN [stream |-> st, raised |-> TRUE]
    ELSE IF fail = "summary" THEN [stream |-> Emit(st, line), raised |-> TRUE]
    ELSE [stream |-> Emit(st, line), raised |-> FALSE]

\* safe_snapshot: try: write_snapshot_atomic(...) except Exception: pass
safe_snapshot(fail) == [raised |-> FALSE]

\* run_once_with_engine after step_once returned r, with the first write that is due
\* failing as fail says
after_step_io(a, d, st, e, r, deferred, log, late, fail) ==
    Only({IF (fail = "snapshot" /\ safe_snapshot(fail).raised) \/ w.raised
          THEN [drv |-> [d EXCEPT !.pc = "crashed",
                                  !.progressed_any = @ \/ r.progressed,
                                  !.deferred_hole4 = deferred],
                stream |-> w.stream]
          ELSE after_step(a, d, st, e, r, deferred, log, late) :
          w \in {IF fail \in {"stream", "summary"}
                 THEN emit_progress_to_streams(st, ProgressLine(e), fail)
                 ELSE [stream |-> st, raised |-> FALSE]}})

StepLabel ==
    [none |-> "step", snapshot |-> "step_snapshot_failed",
     stream |-> "step_stream_failed", summary |-> "step_summary_failed"]

\* one iteration that steps the engine; a write fails only in an iteration that writes
StepIO ==
    /\ drv.pc = "loop"
    /\ \E p \in {_read_runctl_state(rc)} : p.state \notin {"stop", "pause"} /\ rc' = p.rc
    /\ \E r \in step_once(eng), log \in BOOLEAN, late \in BOOLEAN, fail \in IoFailures :
       \E g \in {hole4_gate(drv, r.eng)} :
          /\ fail # "none" => (log \/ g.eng.best_depth_ever > drv.last_best)
          /\ \E o \in {after_step_io(args, drv, stream, g.eng, r, g.deferred_hole4,
                                     log, late, fail)} :
                /\ eng' = g.eng
                /\ drv' = o.drv
                /\ stream' = o.stream
                /\ last' = [progressed |-> r.progressed, solved |-> r.solved, called |-> TRUE]
          /\ act' = StepLabel[fail]
    /\ prev' = Snapshot(eng)
    /\ UNCHANGED args

NextDriverIO ==
    \/ OuterLoop
    \/ StartAttempt
    \/ StepIO
    \/ AfterAttempt

SpecDriverIO == InitDriver /\ [][NextDriverIO]_vars

(***************************************************************************)
(* effective_stall_limit alone: every combination of set and unset stall   *)
(* options, applied to best depths around the two thresholds               *)
(***************************************************************************)
StallOption(set, n) == IF set THEN [secs |-> n] ELSE None

StallArgs ==
    {[restart_on_stall |-> StallOption(s[1], 900), stall_below_23 |-> StallOption(s[2], 300),
      stall_at_23 |-> StallOption(s[3], 600), stall_at_24 |-> StallOption(s[4], 1800)] :
        s \in [1..4 -> BOOLEAN]}

StallDepths == {0, 22, 23, 24, 25, 30}

InitStall ==
    /\ args \in StallArgs
    /\ last = [called |-> FALSE]
    /\ eng = None /\ prev = None
    /\ drv = InitDrv /\ rc = InitRunctl /\ stream = <<>> /\ act = "init"

ApplyStallLimit ==
    /\ \E b \in StallDepths :
          last' = [called |-> TRUE, best_depth |-> b,
                   stall_limit |-> effective_stall_limit(args, b)]
    /\ act' = "stall_limit"
    /\ UNCHANGED <<eng, prev, args, drv, rc, stream>>

NextStall == ApplyStallLimit

SpecStall == InitStall /\ [][NextStall]_vars

(***************************************************************************)
(* The driver with --hole4 --hole4-conditional, left alone by the          *)
(* controller, on containers where the gate is released in mid-search      *)
(***************************************************************************)
GateWorlds == {3, 4, 5, 6}

GateArgs ==
    {[w |-> w, shuffle_pieces |-> "none",
      restart_on_stall |-> s.restart_on_stall, stall_below_23 |-> s.stall_below_23,
      stall_at_23 |-> None, stall_at_24 |-> None,
      hole4 |-> TRUE, hole4_conditional |-> TRUE,
      max_results |-> 1, try_openers |-> MaxRotate] :
        w \in GateWorlds, s \in StallSettings}

InitGate ==
    /\ args \in GateArgs
    /\ eng = None /\ last = NoCall /\ prev = None
    /\ drv = InitDrv /\ rc = InitRunctl /\ stream = <<>> /\ act = "init"

SpecGate == InitGate /\ [][DriverAloneNext]_vars

(***************************************************************************)
(* Engine with a small transposition table: the caller sets the tunables   *)
(* TT_MAX and TT_TRIM_KEEP after construction, keeping the order of the    *)
(* defaults (TT_TRIM_KEEP <= TT_MAX)                                       *)
(***************************************************************************)
TTWorlds == {4, 7, 10}

InitTT ==
    /\ \E w \in TTWorlds, rot \in 0..MaxRotate, m \in 1..SmallTTMax :
          \E k \in 0..m :
             eng = [build_engine(w, "none", rot, FALSE) EXCEPT !.TT_MAX = m,
                                                                !.TT_TRIM_KEEP = k]
    /\ last = NoCall
    /\ prev = Snapshot(eng)
    /\ args = None /\ drv = InitDrv /\ rc = InitRunctl /\ stream = <<>> /\ act = "init"

SpecTT == InitTT /\ [][NextEngine]_vars

(***************************************************************************)
(* _apply_place followed by _remove_last on any occupancy bitset and any   *)
(* fit mask of the 4 x 2 container                                         *)
(***************************************************************************)
InitBits ==
    /\ \E e \in {NewEngine(7)} : \E b \in SUBSET Cells(e) : eng = [e EXCEPT !.occ_bits = b]
    /\ last = NoCall
    /\ prev = Snapshot(eng)
    /\ args = None /\ drv = InitDrv /\ rc = InitRunctl /\ stream = <<>> /\ act = "init"

\* self._apply_place(piece, origin_idx, ori_idx, mask, cells_idx)
ApplyPlace ==
    /\ act = "init"
    /\ \E o \in Cells(eng) : \E f \in Range(eng.fits[eng.order[1]][o]) :
          /\ eng' = _apply_place(eng, eng.order[1],
                                 [origin_idx |-> o, ori_idx |-> f.ori_idx,
                                  mask |-> f.mask, cells_idx |-> f.cells_idx])
          /\ last' = [called |-> FALSE, mask |-> f.mask]
    /\ prev' = Snapshot(eng)
    /\ act' = "applied"
    /\ UNCHANGED <<args, drv, rc, stream>>

\* self._remove_last()
RemoveLast ==
    /\ act = "applied"
    /\ eng' = _remove_last(eng)
    /\ act' = "undone"
    /\ UNCHANGED <<last, prev, args, drv, rc, stream>>

SpecBits == InitBits /\ [][ApplyPlace \/ RemoveLast]_vars

(***************************************************************************)
(* Canonicalization of a cell list (solver.py: _rotations24, _apply_rot,   *)
(* _canonicalize_cells)                                                    *)
(* A string is the sequence of its character codes                         *)
(***************************************************************************)
\* perms = list(permutations((0, 1, 2))); signs = the four triples of product +1;
\* for p in perms: for s in signs: rots.append((p, s))
_rotations24 ==
    LET perms == << <<0,1,2>>, <<0,2,1>>, <<1,0,2>>, <<1,2,0>>, <<2,0,1>>, <<2,1,0>> >>
        signs == << <<1,1,1>>, <<1,-1,-1>>, <<-1,1,-1>>, <<-1,-1,1>> >>
    IN  [n \in 1..(Len(perms) * Len(signs)) |->
            [p |-> perms[((n - 1) \div Len(signs)) + 1], s |-> signs[((n - 1) % Len(signs)) + 1]]]

\* w = (v[p[0]], v[p[1]], v[p[2]]);  (s[0]*w[0], s[1]*w[1], s[2]*w[2])
_apply_rot(v, rot) ==
    <<rot.s[1] * v[rot.p[1] + 1], rot.s[2] * v[rot.p[2] + 1], rot.s[3] * v[rot.p[3] + 1]>>

\* the determinant of the matrix of _apply_rot: the sign of the permutation times the signs
Det(rot) ==
    (IF Cardinality({ij \in {<<1,2>>, <<1,3>>, <<2,3>>} : rot.p[ij[1]] > rot.p[ij[2]]}) % 2 = 0
     THEN 1 ELSE -1) * rot.s[1] * rot.s[2] * rot.s[3]

MinOf(S) == CHOOSE m \in S : \A x \in S : m <= x

\* the decimal digits of n >= 0 as character codes
RECURSIVE Digits(_)
Digits(n) == IF n < 10 THEN <<48 + n>> ELSE Digits(n \div 10) \o <<48 + (n % 10)>>

\* ";".join(f"{i},{j},{k}" for (i, j, k) in norm)
RECURSIVE Serialize(_)
Serialize(norm) ==
    IF norm = <<>> THEN <<>>
    ELSE Digits(norm[1][1]) \o <<44>> \o Digits(norm[1][2]) \o <<44>> \o Digits(norm[1][3])
         \o (IF Len(norm) > 1 THEN <<59>> \o Serialize(Tail(norm)) ELSE <<>>)

\* s < t on strings
RECURSIVE StrLess(_, _)
StrLess(s, t) ==
    IF t = <<>> THEN FALSE
    ELSE IF s = <<>> THEN TRUE
    ELSE IF s[1] # t[1] THEN s[1] < t[1]
    ELSE StrLess(Tail(s), Tail(t))

\* (mi, mj, mk): the minimum of the rotated cells on each axis
MinDelta(rot_cells) ==
    <<MinOf({c[1] : c \in rot_cells}), MinOf({c[2] : c \in rot_cells}),
      MinOf({c[3] : c \in rot_cells})>>

\* norm = sorted([(i - mi, j - mj, k - mk) ...]) and its string
NormOf(rot_cells, rot, d) ==
    Only({[best |-> norm, best_rot |-> rot, best_delta |-> d, best_str |-> Serialize(norm)] :
          norm \in {SortBy({<<c[1] - d[1], c[2] - d[2], c[3] - d[3]>> : c \in rot_cells},
                           LAMBDA c : c)}})

\* one round of the loop of _canonicalize_cells: norm, its string and the delta for rot
RotNorm(cells, rot) ==
    Only({Only({NormOf(rot_cells, rot, d) : d \in {MinDelta(rot_cells)}}) :
          rot_cells \in {{_apply_rot(c, rot) : c \in cells}}})

\* the first rotation whose string is not above any other one (s < best_str replaces)
RECURSIVE CanonLoop(_, _, _)
CanonLoop(cells, n, best) ==
    IF n > Len(_rotations24) THEN best
    ELSE CanonLoop(cells, n + 1,
                   Only({IF best = None \/ StrLess(cur.best_str, best.best_str) THEN cur ELSE best :
                         cur \in {RotNorm(cells, _rotations24[n])}}))

\* slip: only the first rotation (the identity) is tried
_canonicalize_cells_first_rot(cells) == RotNorm(cells, _rotations24[1])

_canonicalize_cells(cells) == CanonLoop(cells, 1, None)

\* the cell lists that are canonicalized: every set of up to MaxCells cells of a small
\* box, a set that differs from its mirror image, and a set with a two-digit extent
MaxCells == 3
CanonInputs ==
    {S \in SUBSET {<<x, y, z>> : x \in {0, 1}, y \in {0, 1}, z \in {0, 2}} :
        Cardinality(S) \in 1..MaxCells}
    \cup {{<<0,0,0>>, <<1,0,0>>, <<0,2,0>>, <<0,0,3>>},
          {<<0,0,0>>, <<10,0,0>>, <<10,2,0>>}}
CanonShifts == {<<0,0,0>>, <<-3,1,12>>}

InitCanon ==
    /\ args \in {[cells |-> S] : S \in CanonInputs}
    /\ last = NoCall /\ prev = None /\ eng = None
    /\ drv = InitDrv /\ rc = InitRunctl /\ stream = <<>> /\ act = "init"

\* _canonicalize_cells(cells)
Canonicalize ==
    /\ act = "init"
    /\ last' = [called |-> TRUE, res |-> _canonicalize_cells(args.cells)]
    /\ act' = "canon"
    /\ UNCHANGED <<eng, prev, args, drv, rc, stream>>

\* _canonicalize_cells(canon_cells)
CanonicalizeAgain ==
    /\ act = "canon"
    /\ prev' = [of |-> Range(last.res.best), res |-> _canonicalize_cells(Range(last.res.best))]
    /\ act' = "again"
    /\ UNCHANGED <<eng, last, args, drv, rc, stream>>

\* _canonicalize_cells of the cells rotated by one of _rotations24 and translated
CanonicalizeImage ==
    /\ act = "canon"
    /\ \E n \in DOMAIN _rotations24, t \in CanonShifts :
          \E img \in {{CellAdd(_apply_rot(c, _rotations24[n]), t) : c \in args.cells}} :
             prev' = [of |-> img, res |-> _canonicalize_cells(img)]
    /\ act' = "image"
    /\ UNCHANGED <<eng, last, args, drv, rc, stream>>

SpecCanon == InitCanon /\ [][Canonicalize \/ CanonicalizeAgain \/ CanonicalizeImage]_vars

(***************************************************************************)
(* Symmetry breaking of the first placement (engine/components.py)         *)
(***************************************************************************)
\* +1 for an even number of inversions, -1 for an odd one
_perm_parity(perm) ==
    IF Cardinality({ij \in {<<1,2>>, <<1,3>>, <<2,3>>} : perm[ij[1]] > perm[ij[2]]}) % 2 = 0
    THEN 1 ELSE -1

\* the (perm, signs) with det = parity * signs[0] * signs[1] * signs[2] equal to 1, or
\* to -1 as well when mirrors are included; the order of the list plays no part
generate_transforms(include_mirror) ==
    {tfm \in [perm : {p \in [1..3 -> 0..2] : \A i, j \in 1..3 : i # j => p[i] # p[j]},
              signs : [1..3 -> {-1, 1}]] :
        \E det \in {_perm_parity(tfm.perm) * tfm.signs[1] * tfm.signs[2] * tfm.signs[3]} :
            det = 1 \/ (include_mirror /\ det = -1)}

\* (signs[0] * v[perm[0]], signs[1] * v[perm[1]], signs[2] * v[perm[2]])
apply_transform(p, tfm) ==
    <<tfm.signs[1] * p[tfm.perm[1] + 1], tfm.signs[2] * p[tfm.perm[2] + 1],
      tfm.signs[3] * p[tfm.perm[3] + 1]>>

\* the points shifted by their minimum on each axis, sorted, as one flat tuple (tuples
\* of tuples of int compare as their concatenation)
ShiftedSorted(pts) ==
    Only({[n \in 1..(3 * Len(srt)) |-> srt[((n - 1) \div 3) + 1][((n - 1) % 3) + 1]] :
          srt \in {SortBy({<<c[1] - d[1], c[2] - d[2], c[3] - d[3]>> : c \in pts}, LAMBDA c : c) :
                   d \in {MinDelta(pts)}}})

\* slip: the mirror images are never taken into account
is_canonical_first_placement_no_mirror(placement_cells, mirror_invariant) ==
    placement_cells = {} \/
    \E base_t \in {ShiftedSorted(placement_cells)} :
        \A tfm \in generate_transforms(FALSE) :
            \E tup \in {ShiftedSorted({apply_transform(p, tfm) : p \in placement_cells})} :
                ~LexLess(tup, base_t)

\* base_t == best, best the minimum of the shifted sorted tuples over the transforms
is_canonical_first_placement(placement_cells, mirror_invariant) ==
    placement_cells = {} \/
    \E base_t \in {ShiftedSorted(placement_cells)} :
        \A tfm \in generate_transforms(mirror_invariant) :
            \E tup \in {ShiftedSorted({apply_transform(p, tfm) : p \in placement_cells})} :
                ~LexLess(tup, base_t)

InitSym ==
    /\ args \in {[cells |-> S, mirror_invariant |-> m] : S \in CanonInputs, m \in BOOLEAN}
    /\ last = NoCall /\ prev = None /\ eng = None
    /\ drv = InitDrv /\ rc = InitRunctl /\ stream = <<>> /\ act = "init"

\* is_canonical_first_placement(p, container, mirror_invariant)
CheckPlacement ==
    /\ act = "init"
    /\ last' = [called |-> TRUE,
                canonical |-> is_canonical_first_placement(args.cells, args.mirror_invariant)]
    /\ act' = "checked"
    /\ UNCHANGED <<eng, prev, args, drv, rc, stream>>

\* is_canonical_first_placement of a symmetry image of p, at another position
CheckImage ==
    /\ act = "checked"
    /\ \E tfm \in generate_transforms(args.mirror_invariant), t \in CanonShifts :
          \E img \in {{CellAdd(apply_transform(c, tfm), t) : c \in args.cells}} :
             prev' = [of |-> img,
                      canonical |-> is_canonical_first_placement(img, args.mirror_invariant)]
    /\ act' = "image"
    /\ UNCHANGED <<eng, last, args, drv, rc, stream>>

SpecSym == InitSym /\ [][CheckPlacement \/ CheckImage]_vars

(***************************************************************************)
(* Connected components of a cell set (engine/components.py)               *)
(***************************************************************************)
\* the 12 neighbour vectors: the signed permutations of (1, 1, 0)
_FCC_NEIGH == << <<-1,0,-1>>, <<-1,0,1>>, <<1,0,-1>>, <<1,0,1>>,
                 <<-1,-1,0>>, <<-1,1,0>>, <<1,-1,0>>, <<1,1,0>>,
                 <<0,-1,-1>>, <<0,-1,1>>, <<0,1,-1>>, <<0,1,1>> >>

\* a neighbour list that holds one vector of each opposite pair only
neighbors_fcc_one_way(p) ==
    [i \in 1..(Len(_FCC_NEIGH) \div 2) |-> CellAdd(p, _FCC_NEIGH[2 * i])]

neighbors_fcc(p) == [i \in 1..Len(_FCC_NEIGH) |-> CellAdd(p, _FCC_NEIGH[i])]

\* min(cells): the lexicographically smallest cell
first_anchor_cell(cells) ==
    CHOOSE m \in cells : \A c \in cells : c = m \/ LexLess(m, c)

\* for nb in neighbors_fcc(cur): if nb in s: s.remove(nb); comp.add(nb); stack.append(nb)
RECURSIVE VisitNeighbours(_, _, _)
VisitNeighbours(st, nbs, i) ==
    IF i > Len(nbs) THEN st
    ELSE IF nbs[i] \in st.s
         THEN VisitNeighbours([s |-> st.s \ {nbs[i]},
                               comp |-> st.comp \cup {nbs[i]},
                               stack |-> Append(st.stack, nbs[i])], nbs, i + 1)
         ELSE VisitNeighbours(st, nbs, i + 1)

\* while stack: cur = stack.pop(); visit the neighbours of cur
RECURSIVE Flood(_)
Flood(st) ==
    IF st.stack = <<>> THEN st
    ELSE Flood(VisitNeighbours(
                 [st EXCEPT !.stack = SubSeq(st.stack, 1, Len(st.stack) - 1)],
                 neighbors_fcc(st.stack[Len(st.stack)]), 1))

\* the sort key (len(c), min(c)) of a component
CompKey(c) == <<Cardinality(c)>> \o first_anchor_cell(c)

\* the two clusters of test_components_two_disconnected
TwoClusters ==
    {<<0,0,0>>, <<1,1,0>>, <<1,0,1>>, <<0,1,1>>,
     <<10,0,0>>, <<11,1,0>>, <<11,0,1>>, <<10,1,1>>}

\* the cell sets whose components are computed: every set of up to MaxCells cells
\* out of a tetrahedron, a cell further along a diagonal, a cell of the other
\* parity and a distant cell; and the two clusters of the test
CompInputs ==
    {S \in SUBSET {<<0,0,0>>, <<1,1,0>>, <<1,0,1>>, <<0,1,1>>,
                   <<2,2,0>>, <<1,0,0>>, <<10,0,0>>} : Cardinality(S) <= MaxCells}
    \cup {TwoClusters}

InitComp ==
    /\ args \in {[cells |-> S] : S \in CompInputs}
    /\ eng = [s |-> args.cells, comps |-> <<>>]
    /\ last = NoCall /\ prev = None
    /\ drv = InitDrv /\ rc = InitRunctl /\ stream = <<>> /\ act = "init"

\* find_components_fcc of no cells: the loop is not entered
NoComponents ==
    /\ act = "init" /\ eng.s = {}
    /\ last' = [called |-> TRUE, comps |-> <<>>]
    /\ act' = "returned"
    /\ UNCHANGED <<eng, prev, args, drv, rc, stream>>

\* one turn of  while s:  s.pop() yields any cell of s; after the last turn the
\* components are sorted and returned
PopComponent ==
    /\ act \in {"init", "popped"} /\ eng.s # {}
    /\ \E start \in eng.s :
          \E st \in {Flood([s |-> eng.s \ {start}, comp |-> {start}, stack |-> <<start>>])} :
             /\ eng' = [s |-> st.s, comps |-> Append(eng.comps, st.comp)]
             /\ IF st.s = {}
                THEN /\ last' = [called |-> TRUE,
                                 comps |-> SortBy(Range(eng.comps) \cup {st.comp}, CompKey)]
                     /\ act' = "returned"
                ELSE /\ last' = last
                     /\ act' = "popped"
    /\ UNCHANGED <<prev, args, drv, rc, stream>>

SpecComp == InitComp /\ [][NoComponents \/ PopComponent]_vars

(***************************************************************************)
(* Anchor selection on any occupancy (SolverEngine._select_anchor)         *)
(***************************************************************************)
AnchorWorlds == {3, 7, 8}

InitAnchor ==
    /\ \E w \in AnchorWorlds : \E e \in {NewEngine(w)} : \E b \in SUBSET Cells(e) :
          eng = [e EXCEPT !.occ_bits = b]
    /\ last = NoCall /\ prev = None /\ args = None
    /\ drv = InitDrv /\ rc = InitRunctl /\ stream = <<>> /\ act = "init"

\* anchor, a_deg = self._select_anchor(N, occ)
SelectAnchor ==
    /\ act = "init"
    /\ last' = [called |-> TRUE, anchor |-> _select_anchor(eng, eng.occ_bits)]
    /\ act' = "anchor"
    /\ UNCHANGED <<eng, prev, args, drv, rc, stream>>

\* the corridor switch that _build_choices_bits derives from the anchor's degree
SwitchCorridor ==
    /\ act = "anchor"
    /\ eng' = [eng EXCEPT !.in_corridor = InCorridor(eng, last.anchor)]
    /\ act' = "switched"
    /\ UNCHANGED <<last, prev, args, drv, rc, stream>>

SpecAnchor == InitAnchor /\ [][SelectAnchor \/ SwitchCorridor]_vars

(***************************************************************************)
(* Engine with small branch caps: the caller sets BRANCH_CAP_OPEN,         *)
(* BRANCH_CAP_TIGHT and deg2_corridor after construction                   *)
(***************************************************************************)
CapWorlds == {7, 8, 10}

InitCap ==
    /\ \E w \in CapWorlds, open \in 1..SmallCapMax, tight \in 1..SmallCapMax, d2 \in BOOLEAN :
          eng = [build_engine(w, "none", 0, FALSE) EXCEPT !.BRANCH_CAP_OPEN = open,
                                                           !.BRANCH_CAP_TIGHT = tight,
                                                           !.branch_cap_cur = open,
                                                           !.deg2_corridor = d2]
    /\ last = NoCall
    /\ prev = Snapshot(eng)
    /\ args = None /\ drv = InitDrv /\ rc = InitRunctl /\ stream = <<>> /\ act = "init"

SpecCap == InitCap /\ [][NextEngine]_vars

(***************************************************************************)
(* build_engine for every shuffle mode and seed (solver.py)                *)
(***************************************************************************)
ShuffleModes == {"none", "within-buckets", "full"}
ShuffleSeeds == 0..MaxSeed

\* build_engine with its seed: eng.RNG_SEED = int(rng_seed), then the shuffle call
\* (which raises and is swallowed), the rotation and the hole4 flag
SeededEngine(w, rng_seed, shuffle, rotate_first, hole4) ==
    [RNG_SEED |-> rng_seed] @@ build_engine(w, shuffle, rotate_first, hole4)

InitShuffle ==
    /\ args \in {[w |-> w, rng_seed |-> s, shuffle_pieces |-> m, hole4 |-> h] :
                    w \in WorldIds, s \in ShuffleSeeds, m \in ShuffleModes, h \in BOOLEAN}
    /\ eng = None /\ last = NoCall /\ prev = None
    /\ drv = InitDrv /\ rc = InitRunctl /\ stream = <<>> /\ act = "init"

\* engine = build_engine(SolverEngine, pieces, valid_set, rng_seed=run_seed,
\*                       shuffle=args.shuffle_pieces, rotate_first=0, hole4=args.hole4)
BuildEngine ==
    /\ act = "init"
    /\ eng' = SeededEngine(args.w, args.rng_seed, args.shuffle_pieces, 0, args.hole4)
    /\ prev' = Snapshot(eng')
    /\ act' = "built"
    /\ UNCHANGED <<last, args, drv, rc, stream>>

SpecShuffle == InitShuffle /\ [][BuildEngine]_vars

(***************************************************************************)
(* Atomic replace of a snapshot file (solver.py: _atomic_replace,          *)
(* _atomic_write, _atomic_write_world_json).  eng holds the two files:     *)
(* dst is the destination, tmp is path + ".tmp"; a file is absent, holds a *)
(* complete content, or holds the part written so far.                     *)
(***************************************************************************)
RETRIES == 12
Absent == "absent"
Partial == "partial"

\* a slip of the rename: the content is copied and the temporary file stays
os_replace_keeps_src(fs) == [fs EXCEPT !.dst = fs.tmp]

\* os.replace(src, dst) when it succeeds
os_replace(fs) == [dst |-> fs.tmp, tmp |-> Absent]

InitAtomic ==
    /\ args \in {[fn |-> f, old |-> o, data |-> d] :
                    f \in {"_atomic_write", "_atomic_write_world_json"},
                    o \in {Absent, "snapshot 1", "snapshot 2"},
                    d \in {"snapshot 2", "snapshot 3"}}
    /\ eng = [dst |-> args.old, tmp |-> Absent]
    /\ last = [called |-> FALSE, tries |-> 0]
    /\ prev = None /\ drv = InitDrv /\ rc = InitRunctl /\ stream = <<>> /\ act = "init"

\* open(tmp, "w"): the temporary file exists and is being written
OpenTmp ==
    /\ act = "init"
    /\ eng' = [eng EXCEPT !.tmp = Partial]
    /\ last' = [last EXCEPT !.called = TRUE]
    /\ act' = "open"
    /\ UNCHANGED <<prev, args, drv, rc, stream>>

\* f.write(data) and close
WriteTmp ==
    /\ act = "open"
    /\ eng' = [eng EXCEPT !.tmp = args.data]
    /\ act' = "written"
    /\ UNCHANGED <<last, prev, args, drv, rc, stream>>

\* the write raises: the exception leaves the function, the files stay as they are
WriteRaises ==
    /\ act = "open"
    /\ act' = "raised"
    /\ UNCHANGED <<eng, last, prev, args, drv, rc, stream>>

\* one turn of  for _ in range(retries)  in which os.replace succeeds: return True
ReplaceDone ==
    /\ act \in {"written", "retry"} /\ last.tries < RETRIES
    /\ eng' = os_replace(eng)
    /\ last' = [last EXCEPT !.tries = @ + 1]
    /\ act' = "replaced"
    /\ UNCHANGED <<prev, args, drv, rc, stream>>

\* one turn in which os.replace raises PermissionError or OSError: sleep and go on
ReplaceRaises ==
    /\ act \in {"written", "retry"} /\ last.tries < RETRIES
    /\ last' = [last EXCEPT !.tries = @ + 1]
    /\ act' = "retry"
    /\ UNCHANGED <<eng, prev, args, drv, rc, stream>>

\* _atomic_replace returned False: os.remove(tmp)
RemoveTmp ==
    /\ act \in {"written", "retry"} /\ last.tries >= RETRIES
    /\ eng' = [eng EXCEPT !.tmp = Absent]
    /\ act' = "removed"
    /\ UNCHANGED <<last, prev, args, drv, rc, stream>>

\* os.remove(tmp) raises as well: except Exception: pass
RemoveRaises ==
    /\ act \in {"written", "retry"} /\ last.tries >= RETRIES
    /\ act' = "kept"
    /\ UNCHANGED <<eng, last, prev, args, drv, rc, stream>>

SpecAtomic ==
    InitAtomic /\ [][OpenTmp \/ WriteTmp \/ WriteRaises \/ ReplaceDone \/ ReplaceRaises
                     \/ RemoveTmp \/ RemoveRaises]_vars

(***************************************************************************)
(* Properties of the engine                                                *)
(***************************************************************************)
Masks(e) == {e.placements[i].mask : i \in DOMAIN e.placements}
AllCells(e) == DOMAIN e.idx2cell

\* C1: in every state reached by step_once calls on a fresh engine, the occupancy
\* is the bitwise OR of the masks of the placements on the stack
C1_OccupancyIsOrOfMasks == eng.occ_bits = UNION Masks(eng)

\* a backtrack has happened and a placement is on the stack
C1_Witness ==
    /\ last.called /\ eng.TT # <<>> /\ eng.placements # <<>>
    /\ eng.occ_bits = UNION Masks(eng)

\* C2: whenever step_once reports solved, every container cell is covered by
\* exactly one placement
C2_SolvedIsCompleteTiling ==
    (last.called /\ last.solved) =>
        \A c \in AllCells(eng) :
            Cardinality({i \in DOMAIN eng.placements : c \in eng.placements[i].mask}) = 1

\* C3: the placement at stack position i is a placement of piece order[i], order is a
\* permutation of the piece ids, no piece is on the stack twice, and a solved state
\* uses every piece exactly once
C3_StackFollowsOrder ==
    LET ids == DOMAIN Worlds[eng.w].pieces
        onstack == [i \in DOMAIN eng.placements |-> eng.placements[i].piece]
    IN  /\ Len(eng.order) = Cardinality(ids) /\ Range(eng.order) = ids
        /\ Len(eng.placements) <= Len(eng.order)
        /\ \A i \in DOMAIN eng.placements : onstack[i] = eng.order[i]
        /\ \A i, j \in DOMAIN eng.placements : onstack[i] = onstack[j] => i = j
        /\ eng.solved => (Range(onstack) = ids /\ Len(onstack) = Cardinality(ids))

\* a rotated order of at least two pieces, solved
C3_Witness ==
    /\ eng.solved /\ Len(eng.placements) >= 2
    /\ eng.order # _pick_order(Worlds[eng.w].pieces)
    /\ \A i \in DOMAIN eng.placements : eng.placements[i].piece = eng.order[i]

\* C4: after every step_once call the cursor is the length of the placements stack
\* and is not negative
C4_CursorIsStackLength ==
    last.called => (eng.cursor = Len(eng.placements) /\ eng.cursor >= 0)

\* a call that backtracked on a transposition-table hit
C4_Witness ==
    /\ last.called /\ last.progressed
    /\ Len(eng.frontier) < Len(prev.frontier) /\ eng.TT = prev.TT
    /\ eng.cursor = prev.cursor - 1 /\ eng.cursor = Len(eng.placements)

\* C5: step_once never discards a frontier deque that still holds untried candidates
\* (a call that leaves the frontier list shorter has popped its last deque)
C5_NoUntriedCandidateDiscarded ==
    (last.called /\ Len(eng.frontier) < Len(prev.frontier)) =>
        prev.frontier[Len(prev.frontier)] = <<>>

\* C6: step_once returns (false, false) only with cursor = 0 and frontier[0] empty
C6_ExhaustedOnlyAtEmptyRoot ==
    (last.called /\ ~last.progressed /\ ~last.solved) =>
        (eng.cursor = 0 /\ Len(eng.frontier) >= 1 /\ eng.frontier[1] = <<>>)

(***************************************************************************)
(* Properties of the driver                                                *)
(***************************************************************************)
NotMultipleOf4 == Cardinality(Worlds[args.w].cells) % 4 # 0

InAttemptLoop == drv.pc \in {"loop", "pausewait"}

\* step_once has just returned (false, false): the engine reports the root exhausted
RootExhausted == act = "step" /\ last.called /\ ~last.progressed /\ ~last.solved

\* C7: for a container whose cell count is not a multiple of 4, once the engine has
\* exhausted the root the driver (left alone by the controller) eventually exits,
\* whatever the stall-window options are
C7_DriverExitsOnNonMultipleOf4 ==
    [](rc.content = "run") => []((NotMultipleOf4 /\ RootExhausted) => <>(drv.pc = "done"))

\* C8: once the run-control file holds stop, the next thing the driver does in the
\* attempt is not a step_once call: its poll appends one "stopped" line and ends the
\* attempt with stopped_by_user; an attempt never has two "stopped" lines
C8_StopAtNextPoll ==
    /\ [][(rc.content = "stop" /\ InAttemptLoop /\ act' # "ctl") =>
            (/\ act' = "stop"
             /\ drv'.pc = "ret" /\ drv'.status = "stopped_by_user"
             /\ eng' = eng
             /\ stream' = Emit(stream, EventLine("stopped")))]_vars
    /\ [](drv.n_stopped <= 1)

\* a stop that arrived in the middle of a search, read by the poll
C8_Witness ==
    /\ act = "stop" /\ rc.content = "stop"
    /\ drv.pc = "ret" /\ drv.status = "stopped_by_user" /\ drv.n_stopped = 1
    /\ last.called /\ eng.cursor > 0
    /\ LastLine(stream).event = "stopped"

\* C9: after an attempt ended with stopped_by_user no further attempt is started, and
\* the driver ends with the stream's last line a progress line of status
\* "stopped_by_user" that follows the "stopped" line
C9_StoppedByUserEndsDriver ==
    /\ []((drv.pc = "done" /\ drv.status = "stopped_by_user") =>
            (/\ Len(stream) >= 2
             /\ stream[Len(stream) - 1].event = "stopped"
             /\ LastLine(stream).event = "progress"
             /\ "status" \in DOMAIN LastLine(stream)
             /\ LastLine(stream).status = "stopped_by_user"))
    /\ [][drv.status = "stopped_by_user" =>
            (/\ act' \notin {"outer", "start", "step"}
             /\ eng' = eng
             /\ (act' = "ret" => drv'.pc = "done"))]_vars

\* the driver has ended on a stop although a rotation of the opener and further
\* results were still due
C9_Witness ==
    /\ drv.pc = "done" /\ drv.status = "stopped_by_user"
    /\ drv.tried < args.try_openers /\ drv.results_found < args.max_results
    /\ placed_count(eng) = 0 /\ last.called
    /\ LastLine(stream).event = "progress" /\ LastLine(stream).status = "stopped_by_user"

\* the engine fields C10 names
EngCore(e) == [cursor |-> e.cursor, occ_bits |-> e.occ_bits,
               placements |-> e.placements, attempts |-> e.attempts]

\* C10: from a "paused" line until the next "resumed" or "stopped" line no step_once
\* call is made and the engine's cursor, occupancy, placements and attempts stay
C10_NoStepWhilePaused ==
    [][(stream # <<>> /\ LastLine(stream).event = "paused") =>
          (act' # "step" /\ EngCore(eng') = EngCore(eng))]_vars

\* a driver that has polled again while paused in the middle of a search
C10_Witness ==
    /\ act = "wait" /\ drv.pc = "pausewait" /\ drv.paused
    /\ stream # <<>> /\ LastLine(stream).event = "paused"
    /\ last.called /\ eng.cursor > 0 /\ ~eng.solved

C12_StopsAtMaxResults ==
    /\ [](args # None =>
            (/\ Cardinality(drv.written) <= args.max_results
             /\ drv.results_found <= args.max_results
             /\ (drv.results_found >= args.max_results => drv.pc = "done")))
    /\ [][act' = "start" => drv.results_found < args.max_results]_vars

\* two results were asked for and the second one has just been written
C12_Witness ==
    /\ args # None /\ args.max_results = 2
    /\ drv.pc = "done" /\ act = "ret" /\ drv.status = "solved"
    /\ drv.results_found = 2 /\ Cardinality(drv.written) = 2

\* C13: a solution is written and counted only for a solved attempt whose signature
\* has not been seen; written solutions have distinct signatures (and paths), and the
\* found count is the number of distinct signatures seen
C13_DedupBySignature ==
    /\ [](/\ drv.results_found = Cardinality(drv.seen_sigs)
          /\ Cardinality(drv.written) = drv.results_found
          /\ {x.sig : x \in drv.written} = drv.seen_sigs
          /\ \A x, y \in drv.written : (x.sig = y.sig \/ x.path = y.path) => x = y)
    /\ [][(drv'.written # drv.written \/ drv'.results_found # drv.results_found) =>
            (/\ drv.pc = "ret" /\ drv.status = "solved"
             /\ placed_count(eng) = total_pieces(eng)
             /\ solution_signature(eng) \notin drv.seen_sigs
             /\ drv'.written = drv.written \cup {world_json(args, drv, eng)}
             /\ drv'.results_found = drv.results_found + 1)]_vars

\* a second attempt has solved the container with a solution whose signature was seen:
\* nothing was written for it
C13_Witness ==
    /\ act = "ret" /\ drv.status = "solved" /\ drv.n_solved = 2
    /\ drv.results_found = 1 /\ Cardinality(drv.written) = 1
    /\ solution_signature(eng) \in drv.seen_sigs

\* C14: a run is a function of its inputs (seed, shuffle mode, opener rotation, hole4
\* flags, container, pieces): an iteration that made a given step_once call writes the
\* same progress lines and leaves the same driver state whatever the clock reads, so
\* two runs that make the same engine choices produce the same events and solutions
C14_SameInputsSameEvents ==
    [][act' = "step" =>
          \A log \in BOOLEAN, late \in BOOLEAN :
              after_step(args, drv, stream, eng',
                         [progressed |-> last'.progressed, solved |-> last'.solved],
                         drv'.deferred_hole4, log, late)
                  = [drv |-> drv', stream |-> stream']]_vars

\* C15: a container with zero cells is rejected before the first attempt: no engine is
\* built or stepped for it and no progress event is written
C15_EmptyContainerRejected ==
    (args # None /\ Worlds[args.w].cells = {}) =>
        (eng = None /\ ~last.called /\ stream = <<>> /\ drv.pc \in {"outer", "done"})

\* C16: a failing snapshot write or progress write (stream append or summary overwrite)
\* does not interrupt the search: the attempt goes on (or ends as it would have) and
\* the engine is in the state the step_once call left it in
C16_IoFailureDoesNotInterrupt ==
    [][act' \in {"step_snapshot_failed", "step_stream_failed", "step_summary_failed"} =>
          (/\ drv'.pc \in {"loop", "ret"}
           /\ EngCore(eng') \in {EngCore(hole4_gate(drv, r.eng).eng) : r \in step_once(eng)})]_vars

\* the option of the tier the depth falls in: stall_at_24 from 24, stall_at_23 at 23,
\* stall_below_23 below
OwnTierOption(a, b) ==
    IF b >= 24 THEN a.stall_at_24 ELSE IF b >= 23 THEN a.stall_at_23 ELSE a.stall_below_23

\* C17 as stated: the window is the option of the depth's own tier, and
\* restart_on_stall whenever that option is unset
C17_Original ==
    last.called =>
        last.stall_limit = IF OwnTierOption(args, last.best_depth) # None
                           THEN OwnTierOption(args, last.best_depth)
                           ELSE args.restart_on_stall

\* the depth-specific options that apply to a depth, most specific first: >= 24 is
\* also >= 23
TierOptions(a, b) ==
    IF b >= 24 THEN <<a.stall_at_24, a.stall_at_23>>
    ELSE IF b >= 23 THEN <<a.stall_at_23>>
    ELSE <<a.stall_below_23>>

\* C17 (amended): the window is the first option that is set among those that apply to
\* the depth (stall_at_24 from 24, stall_at_23 from 23, stall_below_23 below 23), and
\* restart_on_stall when none of them is set; at 24 and above an unset stall_at_24
\* falls back to stall_at_23 before restart_on_stall
C17_StallWindowCascade ==
    last.called =>
        LET opts == TierOptions(args, last.best_depth)
            set == {i \in DOMAIN opts : opts[i] # None}
        IN  last.stall_limit = IF set = {} THEN args.restart_on_stall
                               ELSE opts[CHOOSE i \in set : \A j \in set : i <= j]

\* best depth 24 or more, stall_at_24 unset, stall_at_23 and restart_on_stall set:
\* the window is stall_at_23
C17_Witness ==
    /\ last.called /\ last.best_depth >= 24
    /\ args.stall_at_24 = None /\ args.stall_at_23 # None /\ args.restart_on_stall # None
    /\ last.stall_limit = args.stall_at_23 /\ last.stall_limit # args.restart_on_stall

\* an iteration of an attempt that runs with --hole4 --hole4-conditional
GatedStep == args.hole4 /\ args.hole4_conditional /\ drv.pc = "loop" /\ act' = "step"

\* C18: with hole4 and hole4_conditional on, the prune is off from the start of the
\* attempt up to the first step after which every connected empty component has a size
\* divisible by 4; the frontiers built up to then are those built with hole4 off; and
\* once the prune is on it stays on for the rest of the attempt
C18_ConditionalHole4Gate ==
    /\ [][act' = "start" =>
            (drv'.deferred_hole4 = (args.hole4 /\ args.hole4_conditional)
             /\ eng'.hole_mod4 = (args.hole4 /\ ~args.hole4_conditional))]_vars
    /\ [][(GatedStep /\ drv.deferred_hole4) =>
            (/\ ~eng.hole_mod4
             /\ eng'.frontier \in
                    {r.eng.frontier : r \in step_once([eng EXCEPT !.hole_mod4 = FALSE])}
             /\ drv'.deferred_hole4 = ~_empties_mod4_ok(eng', eng'.occ_bits)
             /\ eng'.hole_mod4 = ~drv'.deferred_hole4)]_vars
    /\ [][(GatedStep /\ ~drv.deferred_hole4) =>
            (eng.hole_mod4 /\ eng'.hole_mod4 /\ ~drv'.deferred_hole4)]_vars

\* the gate was released in mid-search and the search has gone on, two pieces deep,
\* with the prune on
C18_Witness ==
    /\ args # None /\ args.hole4 /\ args.hole4_conditional
    /\ act = "step" /\ last.called /\ ~drv.deferred_hole4 /\ eng.hole_mod4
    /\ eng.cursor >= 2 /\ ~eng.solved /\ Len(eng.frontier) >= 2


\* the hashes of the table in insertion order
TTKeys(tt) == [i \in DOMAIN tt |-> tt[i].h]

\* C19: the transposition table is bounded. After every step_once it holds at most
\* TT_MAX entries, and a step whose record inserts a new hash either appends it (the
\* table still fits) or, when the table would exceed TT_MAX, leaves exactly
\* TT_TRIM_KEEP entries: the newest ones, in insertion order, the new hash last
C19_TTBounded ==
    /\ [](Len(eng.TT) <= eng.TT_MAX)
    /\ [][TTKeys(eng'.TT) # TTKeys(eng.TT) =>
            IF Len(eng.TT) + 1 <= eng.TT_MAX
            THEN /\ Len(eng'.TT) = Len(eng.TT) + 1
                 /\ SubSeq(eng'.TT, 1, Len(eng.TT)) = eng.TT
            ELSE /\ Len(eng'.TT) = eng.TT_TRIM_KEEP
                 /\ \A i \in 1..(eng.TT_TRIM_KEEP - 1) :
                       eng'.TT[i] = eng.TT[Len(eng.TT) + 1 - eng.TT_TRIM_KEEP + i]
                 /\ eng.TT_TRIM_KEEP >= 1 => ~TTHas(eng.TT, eng'.TT[eng.TT_TRIM_KEEP].h)]_vars

\* a record has overflowed a full table of two entries: the older one was dropped, the
\* younger one and the new hash remain
C19_Witness ==
    /\ last.called /\ Len(prev.TT) = eng.TT_MAX /\ eng.TT_MAX = 2 /\ eng.TT_TRIM_KEEP = 2
    /\ Len(eng.TT) = 2 /\ eng.TT[1] = prev.TT[2] /\ ~TTHas(prev.TT, eng.TT[2].h)


\* C20: best_depth_ever never decreases from one step_once call to the next, and after
\* every call it is at least the number of placed pieces
C20_BestDepthMonotone ==
    /\ [](eng.best_depth_ever >= placed_count(eng))
    /\ [][eng'.best_depth_ever >= eng.best_depth_ever]_vars

\* a step has backtracked: fewer pieces are placed than before, and the best depth
\* still is the larger count reached earlier
C20_Witness ==
    /\ last.called /\ placed_count(eng) < Len(prev.placements)
    /\ eng.best_depth_ever >= Len(prev.placements)
    /\ eng.best_depth_ever > placed_count(eng)


ControlEvents == {"paused", "resumed", "stopped"}

\* C21 as stated: progress.json describes the event of the last line of progress.jsonl,
\* whatever that event is
C21_Original == stream # <<>> => drv.summary = LastLine(stream)

\* C21: progress.json holds the latest progress event. Whenever the last line of
\* progress.jsonl is a progress line (initial, periodic, improvement or final status),
\* progress.json holds that payload; a control event (paused, resumed, stopped) is
\* appended to the stream only and leaves progress.json as it was
C21_SummaryIsLatestProgress ==
    /\ []((stream # <<>> /\ LastLine(stream).event = "progress") =>
             drv.summary = LastLine(stream))
    /\ [][(stream' # stream /\ LastLine(stream').event \in ControlEvents) =>
             drv'.summary = drv.summary]_vars

\* the driver is paused after an improvement: the stream ends with the paused line,
\* progress.json still holds the progress line of the improvement
C21_Witness ==
    /\ stream # <<>> /\ LastLine(stream).event = "paused"
    /\ drv.summary # None /\ drv.summary.event = "progress" /\ drv.summary.placed > 0


\* C22 as stated: apply then undo of a mask gives back the bitset, for any bitset and
\* any mask
C22_Original == act = "undone" => eng.occ_bits = prev.occ_bits

\* C22: apply followed by undo of a mask m on a bitset b gives b AND NOT m, which is b
\* whenever m is disjoint from b
C22_ApplyUndoDisjoint ==
    act = "undone" =>
        /\ eng.occ_bits = prev.occ_bits \ last.mask
        /\ (prev.occ_bits \cap last.mask = {}) => eng.occ_bits = prev.occ_bits
        /\ Len(eng.placements) = Len(prev.placements)

\* a mask was applied to a non-empty occupancy disjoint from it, and undone
C22_Witness ==
    /\ act = "undone" /\ prev.occ_bits # {} /\ prev.occ_bits \cap last.mask = {}
    /\ eng.occ_bits = prev.occ_bits


\* C23: canonicalization is idempotent and placement-independent. Canonicalizing the
\* canonical cell list gives the same serialization and the same list, and the cells
\* translated and transformed by any of the enumerated rotations have the same
\* canonical serialization (hence the same container_cid)
C23_CanonIdempotentInvariant ==
    /\ act = "again" => /\ prev.res.best_str = last.res.best_str
                        /\ prev.res.best = last.res.best
    /\ act = "image" => prev.res.best_str = last.res.best_str

\* a cell set that is not in canonical position was rotated and shifted, and the image
\* has the canonical serialization of the original
C23_Witness ==
    /\ act = "image" /\ prev.of # args.cells /\ Range(last.res.best) # args.cells
    /\ prev.of # Range(last.res.best) /\ Cardinality(args.cells) >= 3
    /\ prev.res.best_str = last.res.best_str


\* C24: the transforms enumerated for canonicalization are 24 distinct signed axis
\* permutations, each of determinant +1, and so is the one chosen as canonical
C24_EnumeratesProperRotations ==
    act = "canon" =>
        /\ Cardinality(Range(_rotations24)) = 24
        /\ \A n \in DOMAIN _rotations24 : Det(_rotations24[n]) = 1
        /\ Det(last.res.best_rot) = 1


\* C25 as stated: of a placement and a symmetry image of it whose normalised shapes
\* differ, exactly one is canonical
C25_Original ==
    (act = "image" /\ ShiftedSorted(prev.of) # ShiftedSorted(args.cells)) =>
        (prev.canonical # last.canonical)

\* C25: is_canonical_first_placement(p) is true exactly when no symmetry image of p has
\* a smaller translation-normalised sorted cell tuple; of a placement and a symmetry
\* image of it whose normalised shapes differ at most one is canonical; every symmetry
\* orbit contains a canonical placement; the answer does not depend on the position
C25_CanonicalFirstPlacement ==
    /\ act = "checked" =>
          /\ last.canonical <=>
                (\A tfm \in generate_transforms(args.mirror_invariant) :
                    ~LexLess(ShiftedSorted({apply_transform(p, tfm) : p \in args.cells}),
                             ShiftedSorted(args.cells)))
          /\ \E tfm \in generate_transforms(args.mirror_invariant) :
                is_canonical_first_placement({apply_transform(p, tfm) : p \in args.cells},
                                             args.mirror_invariant)
    /\ act = "image" =>
          /\ prev.canonical <=>
                (\A tfm \in generate_transforms(args.mirror_invariant) :
                    ~LexLess(ShiftedSorted({apply_transform(p, tfm) : p \in prev.of}),
                             ShiftedSorted(prev.of)))
          /\ ShiftedSorted(prev.of) # ShiftedSorted(args.cells) =>
                ~(prev.canonical /\ last.canonical)
          /\ ShiftedSorted(prev.of) = ShiftedSorted(args.cells) =>
                (prev.canonical = last.canonical)

\* a placement that is not canonical and a symmetry image of it with another shape
\* that is canonical
C25_Witness ==
    /\ act = "image" /\ ShiftedSorted(prev.of) # ShiftedSorted(args.cells)
    /\ ~last.canonical /\ prev.canonical /\ Cardinality(args.cells) >= 3

\* two cells are neighbours: they differ by 1 in two coordinates and agree in the third
FccAdjacent(p, q) ==
    /\ \A k \in 1..3 : p[k] - q[k] \in {-1, 0, 1}
    /\ Cardinality({k \in 1..3 : p[k] # q[k]}) = 2

\* the cells of c that are joined to a cell of R by a chain of neighbours within c
RECURSIVE Joined(_, _)
Joined(c, R) ==
    IF \E q \in c \ R : \E p \in R : FccAdjacent(p, q)
    THEN Joined(c, R \cup {q \in c : \E p \in R : FccAdjacent(p, q)})
    ELSE R

\* C26: find_components_fcc returns a partition of the input cells into maximal
\* connected sets: the components are non-empty, pairwise disjoint and cover the
\* input, every component is connected under the 12-neighbour relation, no two
\* cells of different components are neighbours, and the two disconnected 4-cell
\* clusters of the test give component sizes [4, 4].
C26_ComponentsPartition ==
    act = "returned" /\ last.called /\ eng.s = {} =>
        /\ UNION Range(last.comps) = args.cells
        /\ \A i \in DOMAIN last.comps :
              /\ last.comps[i] # {}
              /\ \A p \in last.comps[i] : Joined(last.comps[i], {p}) = last.comps[i]
              /\ \A j \in DOMAIN last.comps :
                    i # j =>
                       /\ last.comps[i] \cap last.comps[j] = {}
                       /\ \A p \in last.comps[i], q \in last.comps[j] : ~FccAdjacent(p, q)
        /\ args.cells = TwoClusters =>
              [i \in DOMAIN last.comps |-> Cardinality(last.comps[i])] = <<4, 4>>

C26_Witness ==
    /\ act = "returned" /\ args.cells = TwoClusters
    /\ Len(last.comps) = 2
    /\ \A i \in DOMAIN last.comps : Cardinality(last.comps[i]) = 4

\* C27: a step_once call that moves forward returns solved = (cursor == |order|):
\* the call that places the last piece reports solved = true itself, whether the
\* piece was a forced singleton or was taken from a frontier with several candidates.
C27_ForwardReturnsSolved ==
    last.called /\ eng.cursor > prev.cursor =>
        /\ last.progressed
        /\ last.solved = (eng.cursor = Len(eng.order))
        /\ eng.solved = last.solved


\* C28: every backtrack of step_once, from an empty frontier or from a
\* transposition-table prune, records the new state: right after the call the table
\* maps the hash of the new (occupancy, cursor) to a value >= the new cursor, and no
\* value that was stored before the call is lower after it.
C28_BacktrackRecorded ==
    last.called /\ eng.cursor < prev.cursor =>
        /\ \E h \in {_tt_hash(eng, eng.occ_bits, eng.cursor)} :
              TTHas(eng.TT, h) /\ TTGet(eng.TT, h) >= eng.cursor
        /\ \A i \in DOMAIN prev.TT :
              TTHas(eng.TT, prev.TT[i].h) /\ TTGet(eng.TT, prev.TT[i].h) >= prev.TT[i].v


\* the engine as it was when the frontier of the last placed depth was built
BeforeLastPlace(e) == [_remove_last(e) EXCEPT !.cursor = e.cursor - 1]

\* the candidates that frontier was built with: the one placed and the ones left
BuiltCandidates(e) ==
    {Plain(e.placements[Len(e.placements)])} \cup Range(e.frontier[e.cursor])

\* the fits of the piece that cover the anchor, are free and survive the prunes
AnchorCovering(e, piece_key, anchor) ==
    {Plain(c) : c \in UNION {{consider(e, anchor, o, f) :
                                 f \in {g \in Range(e.fits[piece_key][o]) :
                                           anchor.idx \in g.mask /\ e.occ_bits \cap g.mask = {}}} :
                             o \in Cells(e)} \ {None}}

\* C29: Phase 1 of the candidate construction takes every fit of the next piece that
\* covers the anchor and is disjoint from the occupancy, whichever of its cells is
\* the fit's origin; fits that leave the anchor uncovered are candidates only when
\* no anchor-covering fit survives the prunes.
C29_Phase1CoversAnchor ==
    (/\ last.called /\ eng.cursor >= 1 /\ Len(eng.placements) = eng.cursor
     /\ Len(eng.frontier) = eng.cursor /\ Len(eng.frontier) > Len(prev.frontier)) =>
        \E e \in {BeforeLastPlace(eng)} :
           \E cov \in {AnchorCovering(e, e.order[e.cursor + 1], _select_anchor(e, e.occ_bits))} :
              /\ cov \subseteq BuiltCandidates(eng)
              /\ cov # {} => BuiltCandidates(eng) \subseteq cov


\* the number of unoccupied neighbours of cell i in the current state
FreeNeighbours(i) == Cardinality({n \in NbSet(eng, i) : n \notin eng.occ_bits})

\* C30: the anchor is the unoccupied cell index with the smallest number of
\* unoccupied neighbours, ties broken by the smaller index; no anchor is chosen
\* exactly when every cell is occupied.
C30_AnchorIsMinDegree ==
    act = "anchor" =>
        /\ last.anchor = None <=> Cells(eng) \subseteq eng.occ_bits
        /\ last.anchor # None =>
              /\ last.anchor.idx \in Cells(eng) \ eng.occ_bits
              /\ last.anchor.deg = FreeNeighbours(last.anchor.idx)
              /\ \A j \in Cells(eng) \ eng.occ_bits :
                    \/ FreeNeighbours(last.anchor.idx) < FreeNeighbours(j)
                    \/ /\ FreeNeighbours(last.anchor.idx) = FreeNeighbours(j)
                       /\ last.anchor.idx <= j

C30_Witness ==
    /\ act = "anchor" /\ last.anchor # None /\ eng.occ_bits # {}
    /\ \E j \in Cells(eng) \ eng.occ_bits :
          j > last.anchor.idx /\ FreeNeighbours(j) = last.anchor.deg
    /\ \E k \in Cells(eng) \ eng.occ_bits :
          k < last.anchor.idx /\ FreeNeighbours(k) > last.anchor.deg


\* the occupancy a frontier deque of depth d (counted from 1) was built for
OccBelow(d) == UNION {eng.placements[k].mask : k \in 1..(d - 1)}

\* an unoccupied neighbour of the given cells has no unoccupied neighbour under occ
LeavesIsolated(occ, cells) ==
    \E t \in cells : \E x \in NbSet(eng, t) \ occ : NbSet(eng, x) \ occ = {}

\* C31: no candidate in any frontier, applied to the occupancy it was built for,
\* leaves an unoccupied neighbour of its cells without an unoccupied neighbour; and
\* after every forward placement no empty cell next to the piece just placed is
\* isolated.
C31_NoIsolatedEmpty ==
    /\ \A d \in DOMAIN eng.frontier :
          d <= Len(eng.placements) + 1 =>
             \A n \in DOMAIN eng.frontier[d] :
                ~LeavesIsolated(OccBelow(d) \cup eng.frontier[d][n].mask,
                                Range(eng.frontier[d][n].cells_idx))
    /\ last.called /\ eng.cursor > prev.cursor =>
          ~LeavesIsolated(eng.occ_bits,
                          Range(eng.placements[Len(eng.placements)].cells_idx))

C31_Witness ==
    /\ last.called /\ eng.cursor > prev.cursor /\ ~eng.solved
    /\ eng.frontier[eng.cursor] # <<>>
    /\ eng.occ_bits # Cells(eng)


\* the unoccupied cells joined to a cell of R by a chain of unoccupied neighbours
RECURSIVE EmptyReach(_, _)
EmptyReach(occ, R) ==
    IF \E v \in Cells(eng) \ (occ \cup R) : \E u \in R : v \in NbSet(eng, u)
    THEN EmptyReach(occ, R \cup {v \in Cells(eng) \ occ : \E u \in R : v \in NbSet(eng, u)})
    ELSE R

\* every connected component of unoccupied cells has a size divisible by 4
HolesDivisibleBy4(occ) ==
    \A i \in Cells(eng) \ occ : Cardinality(EmptyReach(occ, {i})) % 4 = 0

\* C32: with hole_mod4 enabled, every candidate put in a frontier yields a
\* post-placement occupancy in which every connected component of unoccupied cells
\* has a size divisible by 4 (and so does the occupancy after a forward placement).
C32_HolesMod4 ==
    eng.hole_mod4 =>
        /\ \A d \in DOMAIN eng.frontier :
              d <= Len(eng.placements) + 1 =>
                 \A n \in DOMAIN eng.frontier[d] :
                    HolesDivisibleBy4(OccBelow(d) \cup eng.frontier[d][n].mask)
        /\ last.called /\ eng.cursor > prev.cursor => HolesDivisibleBy4(eng.occ_bits)

C32_Witness ==
    /\ eng.hole_mod4 /\ last.called /\ eng.cursor > prev.cursor
    /\ eng.frontier[eng.cursor] # <<>>
    /\ Cardinality(Cells(eng) \ eng.occ_bits) >= 4


\* the branch cap that applies to the frontier deque of depth d (counted from 1):
\* the corridor switch taken from the anchor of the occupancy below it
CapAt(d) ==
    IF InCorridor(eng, _select_anchor(eng, OccBelow(d)))
    THEN eng.BRANCH_CAP_TIGHT ELSE eng.BRANCH_CAP_OPEN

\* the engine as it was when the frontier of the last placed depth was ranked: the
\* placement and its try count undone
BeforeLastRank(e) ==
    [BeforeLastPlace(e) EXCEPT
        !.try_counts[TcKey(e.placements[Len(e.placements)].piece,
                           e.placements[Len(e.placements)])] = @ - 1]

\* the candidates built are the CapAt lowest ones of `all` under the ranking key
LowestRanked(e, built, all, cap) ==
    /\ built \subseteq {Plain(c) : c \in all}
    /\ Cardinality(built) = IF Cardinality(all) < cap THEN Cardinality(all) ELSE cap
    /\ \A b \in all, c \in all :
          Plain(b) \in built /\ Plain(c) \notin built =>
             LexLess(RankKey(e, e.order[e.cursor + 1], b), RankKey(e, e.order[e.cursor + 1], c))

\* C33: every frontier deque holds at most BRANCH_CAP_TIGHT candidates when it was
\* built in a corridor and at most BRANCH_CAP_OPEN otherwise, and the candidates a
\* build retains are the lowest ones under the ascending rank tuple.
C33_FrontierWithinCap ==
    /\ \A d \in DOMAIN eng.frontier :
          d <= Len(eng.placements) + 1 => Len(eng.frontier[d]) <= CapAt(d)
    /\ (/\ last.called /\ eng.cursor >= 1 /\ Len(eng.placements) = eng.cursor
        /\ Len(eng.frontier) = eng.cursor /\ Len(eng.frontier) > Len(prev.frontier)) =>
          \E e \in {BeforeLastRank(eng)} :
             \E all \in Choices(e, e.order[e.cursor + 1], _select_anchor(e, e.occ_bits)) :
                LowestRanked(e, BuiltCandidates(eng), all, CapAt(eng.cursor))

\* a build kept two candidates out of more
C33_Witness ==
    /\ last.called /\ eng.cursor >= 1 /\ Len(eng.placements) = eng.cursor
    /\ Len(eng.frontier) = eng.cursor /\ Len(eng.frontier) > Len(prev.frontier)
    /\ Cardinality(BuiltCandidates(eng)) = 2
    /\ \E e \in {BeforeLastRank(eng)} :
          \E all \in Choices(e, e.order[e.cursor + 1], _select_anchor(e, e.occ_bits)) :
             Cardinality(all) > 2


\* the piece order of an attempt before the opener rotation
BaseOrder == _pick_order(Worlds[args.w].pieces)

\* seq is base turned left by t places
TurnedBy(seq, base, t) ==
    /\ Len(seq) = Len(base)
    /\ \A i \in DOMAIN seq : seq[i] = base[((i - 1 + t) % Len(base)) + 1]

C35_ShuffleModes ==
    act = "built" =>
        /\ args.shuffle_pieces = "none" => eng.order = BaseOrder
        /\ args.shuffle_pieces # "none" /\ Len(BaseOrder) >= 2 =>
              \E s \in ShuffleSeeds :
                 SeededEngine(args.w, s, args.shuffle_pieces, 0, args.hole4).order # BaseOrder


\* C36 as stated: the destination always holds its previous complete content or the
\* complete new content, the rename is tried at most 12 times, and when all tries
\* fail the destination is unchanged and the temporary file is removed.
C36_Original ==
    /\ eng.dst \in {args.old, args.data}
    /\ last.tries <= 12
    /\ act \in {"removed", "kept"} => eng.dst = args.old /\ eng.tmp = Absent

\* C36: the destination always holds its previous complete content or the complete
\* new content and changes only by a rename of the completely written temporary
\* file; the rename is tried at most 12 times; when all tries fail the destination
\* is unchanged and the removal of the temporary file is attempted: the file is
\* gone unless the removal fails too, in which case it stays with the new content.
C36_AtomicReplace ==
    /\ [](/\ eng.dst \in {args.old, args.data}
          /\ last.tries <= 12
          /\ act = "replaced" => eng.dst = args.data /\ eng.tmp = Absent
          /\ act = "removed" => last.tries = 12 /\ eng.dst = args.old /\ eng.tmp = Absent
          /\ act = "kept" => last.tries = 12 /\ eng.dst = args.old /\ eng.tmp = args.data)
    /\ [][eng'.dst # eng.dst => act' = "replaced" /\ eng.tmp = args.data]_vars

\* all tries failed on an existing destination and the temporary file was removed
C36_Witness ==
    /\ act = "removed" /\ last.tries = 12
    /\ eng.dst = args.old /\ args.old # Absent /\ args.old # args.data
    /\ eng.tmp = Absent


\* C37: in every reachable engine state the masks of the placements on the stack
\* are pairwise disjoint, and every candidate waiting in the frontier of depth d is
\* disjoint from the occupancy of the placements below d, to which it is applied.
C37_PlacementsDisjoint ==
    /\ \A i \in DOMAIN eng.placements, j \in DOMAIN eng.placements :
          i < j => eng.placements[i].mask \cap eng.placements[j].mask = {}
    /\ \A d \in DOMAIN eng.frontier :
          d <= Len(eng.placements) + 1 =>
             \A n \in DOMAIN eng.frontier[d] : eng.frontier[d][n].mask \cap OccBelow(d) = {}

\* two pieces are stacked and a candidate of the second depth is still waiting
C37_Witness ==
    /\ last.called /\ Len(eng.placements) >= 2
    /\ Len(eng.frontier) >= 2 /\ eng.frontier[2] # <<>>


\* the last step_once call returned (false, false) or solved = true
TerminalReturn == last.called /\ (last.solved \/ ~last.progressed)

\* C38: terminal engine states are absorbing: once step_once has returned
\* (false, false) or solved = true, every later call returns the same solved flag
\* and leaves cursor, occupancy, placements and frontier unchanged.
C38_TerminalAbsorbing ==
    [][TerminalReturn =>
          /\ last'.solved = last.solved
          /\ eng'.cursor = eng.cursor
          /\ eng'.occ_bits = eng.occ_bits
          /\ eng'.placements = eng.placements
          /\ eng'.frontier = eng.frontier]_vars

\* a second call after the root was exhausted: again (false, false), one more attempt
C38_Witness ==
    /\ last.called /\ ~last.progressed /\ ~last.solved
    /\ eng.attempts >= 3 /\ prev.frontier = eng.frontier /\ eng.frontier # <<>>


\* C39: with the controller as the only writer of the run-control file, a paused
\* driver emits "resumed" (and goes on to call step_once) only when the file holds
\* the state run that the controller wrote, also when a poll meets the file while
\* it is missing, empty or half-written.
C39_ResumeOnlyOnRun ==
    act = "resume" =>
        /\ LastLine(stream).event = "resumed"
        /\ drv.pc = "loop" /\ ~drv.paused
        /\ rc.content = "run"

====
